---- MODULE Spec2Model ----
(***************************************************************************)
(* Request execution engine of aspi (src/src/request.ts): one execution   *)
(* of Request.json() / text() / blob() through Request.#makeRequest, with  *)
(* its retry loop, error-handler dispatch and outcome, and the projection  *)
(* of the outcome (Request.#mapResponse) selected by withResult() and      *)
(* throwable().                                                            *)
(*                                                                         *)
(* Optional values (a field that may be undefined) are sets: {} is         *)
(* undefined, {v} is the value v.                                          *)
(***************************************************************************)
EXTENDS Integers, Sequences, FiniteSets, TLC

\* ------------------------------------------------------------------ bounds
\* Largest value of retryConfig.retries that is explored.
MaxRetries == 3

\* ---------------------------------------------------------------- helpers
None == {}
Some(v) == {v}
Get(o) == CHOOSE v \in o : TRUE
Last(seq) == seq[Len(seq)]

\* Variant: two labels carry the same code.
httpErrors_DuplicateCode ==
  [BAD_REQUEST |-> 400, UNAUTHORIZED |-> 401, FORBIDDEN |-> 403,
   NOT_FOUND |-> 404, METHOD_NOT_ALLOWED |-> 405, CONFLICT |-> 409,
   PAYLOAD_TOO_LARGE |-> 413, UNSUPPORTED_MEDIA_TYPE |-> 415,
   UNPROCESSABLE_ENTITY |-> 422, TOO_MANY_REQUESTS |-> 429,
   INTERNAL_SERVER_ERROR |-> 500, NOT_IMPLEMENTED |-> 501,
   BAD_GATEWAY |-> 502, SERVICE_UNAVAILABLE |-> 500,
   GATEWAY_TIMEOUT |-> 504]

\* ------------------------------------------------------- http status table
httpErrors ==
  [BAD_REQUEST |-> 400, UNAUTHORIZED |-> 401, FORBIDDEN |-> 403,
   NOT_FOUND |-> 404, METHOD_NOT_ALLOWED |-> 405, CONFLICT |-> 409,
   PAYLOAD_TOO_LARGE |-> 413, UNSUPPORTED_MEDIA_TYPE |-> 415,
   UNPROCESSABLE_ENTITY |-> 422, TOO_MANY_REQUESTS |-> 429,
   INTERNAL_SERVER_ERROR |-> 500, NOT_IMPLEMENTED |-> 501,
   BAD_GATEWAY |-> 502, SERVICE_UNAVAILABLE |-> 503,
   GATEWAY_TIMEOUT |-> 504]

HttpErrorCodes == {httpErrors[k] : k \in DOMAIN httpErrors}

\* Variant: the label is never found.
getHttpErrorStatus_Undefined(status) == "undefined"

\* Object.keys(httpErrors).find(key => httpErrors[key] === status);
\* find() yields undefined when no key matches.
getHttpErrorStatus(status) ==
  IF status \in HttpErrorCodes
    THEN CHOOSE k \in DOMAIN httpErrors : httpErrors[k] = status
    ELSE "undefined"

\* --------------------------------------------------- inputs of the model
\* Statuses the transport answers with.
Statuses == {200, 404, 500}

\* Statuses a caller lists in retryOn / registers handlers for.
RetryOnCodes == {404, 500}
HandledCodes == {404, 500}

\* Delays used by the repository's retry tests.
FixedDelay == 1000
BaseDelay == 10

\* retries of the README's retry example
ReadmeRetries == 3

\* retries of the retry tests that use a delay promise
ConcurrentRetries == 2

\* retryDelay: (remaining, total) => baseDelay * Math.pow(2, total - remaining)
ExponentialBackoff(remaining, total) == BaseDelay * 2 ^ (total - remaining)

\* Tags given by the convenience registrations notFound() and
\* internalServerError().
TagOf(status) ==
  IF status = 404 THEN "notFoundError" ELSE "internalServerError"

\* Callbacks a caller registers as handlers, by name.
Callbacks == {"cb1", "cb2"}

\* All handler tables over HandledCodes, as notFound(cb1) and
\* internalServerError(cb1) fill them.
CbTables ==
  {[s \in D |-> [cb |-> "cb1", tag |-> TagOf(s)]] :
     D \in SUBSET HandledCodes}

\* retryWhile: absent, () => true (tests, sync), async () => true (tests,
\* async), or an async predicate on the response (status >= 500).
RetryWhileDomain ==
  {[kind |-> "unset", async |-> FALSE], [kind |-> "always", async |-> FALSE],
   [kind |-> "always", async |-> TRUE],
   [kind |-> "serverError", async |-> TRUE]}

RetryDelayDomain ==
  {[kind |-> "unset", ms |-> 0], [kind |-> "number", ms |-> FixedDelay],
   [kind |-> "function", ms |-> 0]}

RetryConfigs ==
  [retries : {None} \cup {Some(n) : n \in -1..MaxRetries},
   retryDelay : RetryDelayDomain,
   retryOn : {None} \cup {Some(S) : S \in (SUBSET RetryOnCodes) \ {{}}},
   retryWhile : RetryWhileDomain,
   onRetry : BOOLEAN]

\* What the output schema's validate returns: { value }, { issues } or a
\* promise.
ValidateResults == {"value", "issues", "promise"}
Strategies == {"json", "text", "blob"}

\* Retry settings of the executions whose projection is explored: none;
\* a fixed delay with retryOn and onRetry; a delay function with an async
\* retryWhile.
ProjectionProfiles ==
  {[retryDelay |-> [kind |-> "unset", ms |-> 0], retryOn |-> None,
    retryWhile |-> [kind |-> "unset", async |-> FALSE], onRetry |-> FALSE],
   [retryDelay |-> [kind |-> "number", ms |-> FixedDelay],
    retryOn |-> Some(RetryOnCodes),
    retryWhile |-> [kind |-> "unset", async |-> FALSE], onRetry |-> TRUE],
   [retryDelay |-> [kind |-> "function", ms |-> 0], retryOn |-> None,
    retryWhile |-> [kind |-> "serverError", async |-> TRUE],
    onRetry |-> FALSE]}

ProjectionRetryConfigs ==
  {[retries |-> r, retryDelay |-> p.retryDelay, retryOn |-> p.retryOn,
    retryWhile |-> p.retryWhile, onRetry |-> p.onRetry] :
     r \in {None} \cup {Some(n) : n \in -1..MaxRetries},
     p \in ProjectionProfiles}

\* The builder calls that select the projection.
BuilderCalls == {"withResult", "throwable"}

\* ------------------------------------------------------------------ state
VARIABLES
  \* fields of the Request object
  retryConfig,       \* #retryConfig
  customErrorCbs,    \* #customErrorCbs: status -> [cb, tag]
  schema,            \* #schema: TRUE iff an output schema is registered
  bodySchemaIssues,  \* #bodySchemaIssues: TRUE iff the list is non-empty
  bodySchema,        \* #bodySchema: TRUE iff a body schema is registered
  body,              \* #localRequestInit.body, if set
  baseUrl,           \* #localRequestInit.baseUrl
  headers,           \* #localRequestInit.headers: name -> value
  middlewares,       \* #middlewares, in registration order
  shouldBeResult,    \* #shouldBeResult
  throwOnError,      \* #throwOnError
  clientThrowOnError,\* Aspi.#throwOnError of the client that made the request
  aspi,              \* the client's other fields: [globalRequestInit,
                     \* middlewares, customErrorCbs], and the number of
                     \* setter calls made on it since the request was created
  sibling,           \* another Request of the client: [customErrorCbs]
  resultCall,        \* the last call of a Result function: what was
                     \* called, in which form, on what, and how it ended
  \* locals of #makeRequest
  pc,                \* position of the execution
  isJson,            \* second argument of #makeRequest
  requestInit,       \* the RequestInit handed to fetch(): [body]
  attempts,
  response,          \* last Response: [defined, id, status]
  responseData,      \* [kind, of]: decoded body of response number `of`
  delay,             \* duration handed to setTimeout
  outcome,           \* what #makeRequest settles with
  settled,           \* what json()/text()/blob() settles with
  \* observation of the execution
  fetchCalls,        \* number of fetch() calls issued
  fetchSettled,      \* number of fetch() calls that resolved or rejected
  attemptLog,        \* how each finished attempt ended
  onRetryLog,        \* response id passed to each onRetry call
  sleeps,            \* duration of each completed setTimeout
  handlerLog,        \* each handler call: its argument and how it ended
  retryDelayLog,     \* [remaining, total, response] of each retryDelay call
  validateResult,    \* what the output schema's validate returned, if called
  lastCall,          \* the last of withResult() / throwable() on the request
  registrations,     \* the error() calls made, on the client or the request
  bodyJsonLog,       \* the bodyJson() / unsafeBody() calls made, in order
  clientRetryConfig, \* Aspi.#retryConfig handed to the request's constructor
  setRetryLog,       \* the arguments of the setRetry() calls on the request
  \* a second #makeRequest call running on the same Request object
  other              \* its locals and its observation, as one record

cfgVars == <<retryConfig, customErrorCbs, schema, bodySchemaIssues,
             shouldBeResult, throwOnError, clientThrowOnError, lastCall,
             registrations, bodySchema, body, bodyJsonLog, clientRetryConfig,
             setRetryLog, aspi, sibling, baseUrl, headers, middlewares>>

\* The request's fields that only the header, base URL and middleware
\* calls touch.
requestInitVars == <<baseUrl, headers, middlewares>>

\* No Result function called yet.
NoResultCall == [fn |-> "none"]

vars == <<retryConfig, customErrorCbs, schema, bodySchemaIssues,
          shouldBeResult, throwOnError, clientThrowOnError, lastCall, pc,
          isJson,
          attempts, response, responseData, delay, outcome, settled,
          fetchCalls, fetchSettled, attemptLog, onRetryLog, sleeps, handlerLog,
          retryDelayLog, validateResult, other, registrations, bodySchema,
          body, bodyJsonLog, requestInit, clientRetryConfig, setRetryLog,
          aspi, sibling, baseUrl, headers, middlewares, resultCall>>

\* The locals and the observation of the execution held in the variables.
execVars == <<pc, isJson, requestInit, attempts, response, responseData, delay, outcome,
              settled, fetchCalls, fetchSettled, attemptLog, onRetryLog,
              sleeps, handlerLog, retryDelayLog, validateResult>>

NoResponse == [defined |-> FALSE, id |-> 0, status |-> 0]
NoData == [kind |-> "undefined", of |-> 0]
NoOutcome ==
  [kind |-> "none", tag |-> "", status |-> 0, statusText |-> "",
   response |-> 0, data |-> NoData]

\* null, and the value json()/text()/blob() settles with: `how` it settles,
\* the `shape` of the value, and its parts (the Result itself, the payload
\* returned or put in slot 0, the failure thrown or put in slot 1).
Null == None
NotSettled ==
  [how |-> "none", shape |-> "none", result |-> NoOutcome, payload |-> Null,
   failure |-> Null]

\* The record of an execution that has not started.
Fresh ==
  [pc |-> "idle", isJson |-> FALSE, requestInit |-> [body |-> None],
   attempts |-> 0, response |-> NoResponse,
   responseData |-> NoData, delay |-> 0, outcome |-> NoOutcome,
   settled |-> NotSettled, fetchCalls |-> 0, fetchSettled |-> 0,
   attemptLog |-> <<>>, onRetryLog |-> <<>>, sleeps |-> <<>>,
   handlerLog |-> <<>>, retryDelayLog |-> <<>>, validateResult |-> "none"]

\* The execution's mutable part as one record, and its write-back.
Cur ==
  [pc |-> pc, isJson |-> isJson, requestInit |-> requestInit,
   attempts |-> attempts, response |-> response,
   responseData |-> responseData, delay |-> delay, outcome |-> outcome,
   settled |-> settled, fetchCalls |-> fetchCalls,
   fetchSettled |-> fetchSettled, attemptLog |-> attemptLog,
   onRetryLog |-> onRetryLog, sleeps |-> sleeps, handlerLog |-> handlerLog,
   retryDelayLog |-> retryDelayLog, validateResult |-> validateResult]

Commit(t) ==
  /\ pc' = t.pc
  /\ isJson' = t.isJson
  /\ requestInit' = t.requestInit
  /\ attempts' = t.attempts
  /\ response' = t.response
  /\ responseData' = t.responseData
  /\ delay' = t.delay
  /\ outcome' = t.outcome
  /\ settled' = t.settled
  /\ fetchCalls' = t.fetchCalls
  /\ fetchSettled' = t.fetchSettled
  /\ attemptLog' = t.attemptLog
  /\ onRetryLog' = t.onRetryLog
  /\ sleeps' = t.sleeps
  /\ handlerLog' = t.handlerLog
  /\ retryDelayLog' = t.retryDelayLog
  /\ validateResult' = t.validateResult
  /\ UNCHANGED <<cfgVars, other, resultCall>>

\* ------------------------------------------------- pieces of #makeRequest
\* Response.ok
ok(resp) == resp.status >= 200 /\ resp.status < 300

\* Variant: a default of two attempts (retries || 2).
sanitisedRetries_DefaultTwo(rc) ==
  IF rc.retries = None \/ rc.retries = Some(0) THEN 2 ELSE Get(rc.retries)

\* #sanitisedRetryConfig: retries || 1, retryDelay || 0, retryOn || []
sanitisedRetries(rc) ==
  IF rc.retries = None \/ rc.retries = Some(0) THEN 1 ELSE Get(rc.retries)

sanitisedRetryDelay(rc) ==
  IF rc.retryDelay.kind = "unset" \/
     (rc.retryDelay.kind = "number" /\ rc.retryDelay.ms = 0)
    THEN [kind |-> "number", ms |-> 0]
    ELSE rc.retryDelay

sanitisedRetryOn(rc) == IF rc.retryOn = None THEN {} ELSE Get(rc.retryOn)

retries == sanitisedRetries(retryConfig)
retryDelay == sanitisedRetryDelay(retryConfig)
retryOn == sanitisedRetryOn(retryConfig)
retryWhile == retryConfig.retryWhile
onRetry == retryConfig.onRetry

\* #makeResponse reads response.status: a TypeError when response is
\* undefined.
makeResponseThrows(resp) == ~resp.defined

makeResponse(resp, data) ==
  [response |-> resp.id, status |-> resp.status,
   statusText |-> getHttpErrorStatus(resp.status), responseData |-> data]

\* Result.err(...) / Result.ok(...) returned by #makeRequest.
ErrAspi(status, statusText, respId, data) ==
  [kind |-> "err", tag |-> "aspiError", status |-> status,
   statusText |-> statusText, response |-> respId, data |-> data]

ErrCustom(tag, status, respId, data) ==
  [kind |-> "err", tag |-> tag, status |-> status, statusText |-> "",
   response |-> respId, data |-> data]

\* Variant: the success carries the response context without the data.
OkResult_DropsData(ctx, data) ==
  [kind |-> "ok", tag |-> "", status |-> ctx.status,
   statusText |-> ctx.statusText, response |-> ctx.response,
   data |-> NoData]

OkResult(ctx, data) ==
  [kind |-> "ok", tag |-> "", status |-> ctx.status,
   statusText |-> ctx.statusText, response |-> ctx.response, data |-> data]

\* An exception that leaves #makeRequest.
Thrown == [NoOutcome EXCEPT !.kind = "throw"]

\* Result.isOk / Result.isErr, and result.value / result.error: what the
\* Result holds, without its __tag.
isOk(result) == result.kind = "ok"
isErr(result) == result.kind = "err"

ResultValue(result) ==
  [tag |-> result.tag, status |-> result.status,
   statusText |-> result.statusText, response |-> result.response,
   data |-> result.data]

ResultError(result) ==
  [tag |-> result.tag, status |-> result.status,
   statusText |-> result.statusText, response |-> result.response,
   data |-> result.data]

getOrNull(result) ==
  IF isOk(result) THEN Some(ResultValue(result)) ELSE Null

getErrorOrNull(result) ==
  IF isErr(result) THEN Some(ResultError(result)) ELSE Null

\* getOrThrow: the value is returned, or the error is thrown.
getOrThrow(result) ==
  IF isOk(result)
    THEN [NotSettled EXCEPT !.how = "return", !.shape = "value",
                            !.payload = Some(ResultValue(result))]
    ELSE [NotSettled EXCEPT !.how = "throw", !.shape = "error",
                            !.failure = Some(ResultError(result))]

\* Variant: #throwOnError is not looked at.
mapResponse_NeverThrows(asResult, throws, value) ==
  IF asResult
    THEN [NotSettled EXCEPT !.how = "return", !.shape = "result",
                            !.result = value]
    ELSE [NotSettled EXCEPT !.how = "return", !.shape = "pair",
                            !.payload = getOrNull(value),
                            !.failure = getErrorOrNull(value)]

\* #mapResponse(value) under the flags #shouldBeResult and #throwOnError.
mapResponse(asResult, throws, value) ==
  IF asResult
    THEN [NotSettled EXCEPT !.how = "return", !.shape = "result",
                            !.result = value]
  ELSE IF throws THEN getOrThrow(value)
  ELSE IF isOk(value)
    THEN [NotSettled EXCEPT !.how = "return", !.shape = "pair",
                            !.payload = getOrNull(value), !.failure = Null]
    ELSE [NotSettled EXCEPT !.how = "return", !.shape = "pair",
                            !.payload = Null,
                            !.failure = getErrorOrNull(value)]

\* `await this.#makeRequest(...)` rethrows what #makeRequest throws.
Rejected == [NotSettled EXCEPT !.how = "throw", !.shape = "exception"]

\* #makeRequest settles with o, and json()/text()/blob() with
\* this.#mapResponse(o).
Return(s, o) ==
  [s EXCEPT !.pc = "done", !.outcome = o,
            !.settled = IF o.kind = "throw"
                          THEN Rejected
                          ELSE mapResponse(shouldBeResult, throwOnError, o)]

\* Variant: one attempt more than configured.
LoopCondition_OneMore(a, r) == a <= r + 1

\* Variant: the loop bound of the earlier engine (attempts < retries).
LoopCondition_Strict(a, r) == a < r

\* while (attempts <= retries)
LoopCondition(a, r) == a <= r

\* Variant: the instanceof check never recognises the parse error.
IsCustomError_Never(d) == FALSE

\* responseData instanceof CustomError
IsCustomError(d) == d.kind = "CustomError"

\* What a retryWhile call returns, and what `await` makes of it.
retryWhileCall(rw, ctx) ==
  [promise |-> rw.async,
   value |-> IF rw.kind = "always" THEN TRUE ELSE ctx.status >= 500]

\* Variant: the call is not awaited; a pending promise is truthy.
Await_Missing(v) == IF v.promise THEN TRUE ELSE v.value

Await(v) == v.value

\* Variant: the retryWhile result is left out of the break condition.
ShouldBreak_IgnorePredicate(resp, on, retryWhileCondition) ==
  ok(resp) \/ resp.status \notin on

\* Variant: response.ok is left out of the break condition.
ShouldBreak_IgnoreOk(resp, on, retryWhileCondition) ==
  resp.status \notin on /\ ~retryWhileCondition

\* response.ok || (!retryOn.includes(response.status) && !retryWhileCondition)
ShouldBreak(resp, on, retryWhileCondition) ==
  ok(resp) \/ (resp.status \notin on /\ ~retryWhileCondition)

\* Variant: the handler is dispatched on the first attempt.
HandlerOnLastAttempt_FirstAttempt(cbs, status, a, r) ==
  status \in DOMAIN cbs /\ a = 1

\* Variant: the handler is dispatched on whichever attempt fails.
HandlerOnLastAttempt_AnyAttempt(cbs, status, a, r) == status \in DOMAIN cbs

\* Variant: the handler is dispatched one attempt before the last.
HandlerOnLastAttempt_OneEarly(cbs, status, a, r) ==
  status \in DOMAIN cbs /\ a >= r - 1

\* response.status in this.#customErrorCbs && attempts === retries
HandlerOnLastAttempt(cbs, status, a, r) == status \in DOMAIN cbs /\ a = r

\* if (attempts === retries) throw e;
MaxRetry(a, r) == a = r

\* this.#customErrorCbs[status].cb({ request, response }) is entered; `at`
\* is the place of the call.
CallHandler(s, at, status, respId, data) ==
  [s EXCEPT !.pc = at,
            !.handlerLog = Append(@, [status |-> status, response |-> respId,
                                      data |-> data, result |-> "pending",
                                      cb |-> customErrorCbs[status].cb])]

\* Variant: the outer catch never consults the handler table.
OuterCatch_NoHandler(s) ==
  Return(s, ErrAspi(500, "INTERNAL_SERVER_ERROR", 0, NoData))

\* The outer catch: the 500 handler if registered, otherwise an AspiError
\* with the synthesized 500 response.
OuterCatch(s) ==
  IF 500 \in DOMAIN customErrorCbs
    THEN CallHandler(s, "handlerInCatch", 500, 0, NoData)
    ELSE Return(s, ErrAspi(500, "INTERNAL_SERVER_ERROR", 0, NoData))

\* Variant: the schema is applied whatever the decode strategy.
ShouldValidate_AnyStrategy(json, hasSchema) == hasSchema

\* if (isJson && this.#schema)
ShouldValidate(json, hasSchema) == json /\ hasSchema

\* Variant: the handler table is not consulted after the loop.
HandlerRegistered_Never(cbs, status) == FALSE

\* response!.status in this.#customErrorCbs
HandlerRegistered(cbs, status) == status \in DOMAIN cbs

\* The code after the loop, up to the handler call, the validate call or
\* the return.
AfterLoop(s) ==
  IF makeResponseThrows(s.response) THEN OuterCatch(s)
  ELSE
    LET ctx == makeResponse(s.response, s.responseData)
        st == s.response.status
    IN IF ~ok(s.response)
         THEN IF HandlerRegistered(customErrorCbs, st)
                THEN CallHandler(s, "handlerAfterLoop", st, ctx.response,
                                 ctx.responseData)
                ELSE Return(s, ErrAspi(ctx.status, ctx.statusText,
                                       ctx.response, ctx.responseData))
         ELSE IF ShouldValidate(s.isJson, schema)
                THEN [s EXCEPT !.pc = "validate"]
                ELSE Return(s, OkResult(ctx, s.responseData))

\* Top of the while loop: the next fetch() is issued, or the loop is left.
LoopHead(s) ==
  IF LoopCondition(s.attempts, retries)
    THEN [s EXCEPT !.pc = "fetch", !.fetchCalls = @ + 1]
    ELSE AfterLoop(s)

\* Variant: onRetry only when another attempt follows.
NextRetry_SkipLast(s) ==
  IF onRetry /\ s.attempts < retries
    THEN IF makeResponseThrows(s.response)
           THEN OuterCatch(s)
           ELSE LoopHead([s EXCEPT !.onRetryLog = Append(@, s.response.id),
                                   !.attempts = @ + 1])
    ELSE LoopHead([s EXCEPT !.attempts = @ + 1])

\* "next retry": onRetry(request, this.#makeResponse(response!, ...));
\* attempts++
NextRetry(s) ==
  IF onRetry
    THEN IF makeResponseThrows(s.response)
           THEN OuterCatch(s)
           ELSE LoopHead([s EXCEPT !.onRetryLog = Append(@, s.response.id),
                                   !.attempts = @ + 1])
    ELSE LoopHead([s EXCEPT !.attempts = @ + 1])

\* Variant: the attempt just completed is counted as remaining.
remainingRetries_CountsCurrent(a, r) == r - a

\* retries - attempts - 1: first argument of retryDelay
remainingRetries(a, r) == r - a - 1

\* Variant: the next attempt follows without the delay and the sleep.
StartDelay_NoSleep(s, onThrow) == NextRetry(s)

\* Computing the delay and starting the timer (same code in the try block
\* and in the catch block).
StartDelay(s, onThrow) ==
  IF retryDelay.kind = "function"
    THEN IF makeResponseThrows(s.response)
           THEN onThrow
           ELSE [s EXCEPT !.pc = "retryDelay",
                          !.retryDelayLog =
                             Append(@, [remaining |->
                                          remainingRetries(s.attempts, retries),
                                        total |-> retries,
                                        response |-> s.response.id])]
    ELSE [s EXCEPT !.pc = "sleep", !.delay = retryDelay.ms]

\* catch (e) of the loop body.
InnerCatch(s) ==
  IF MaxRetry(s.attempts, retries)
    THEN OuterCatch(s)
    ELSE StartDelay(s, OuterCatch(s))

\* Variant: the delay is taken after the last attempt too.
DelayBeforeRetry_Always(a, r) == TRUE

\* if (attempts < retries): the delay of the try block
DelayBeforeRetry(a, r) == a < r

\* The decision taken in the loop body once retryWhileCondition is known.
Decide(s0, retryWhileCondition) ==
  LET st == s0.response.status
      ctx == makeResponse(s0.response, s0.responseData)
      s == [s0 EXCEPT !.attemptLog =
              Append(@, [kind |-> "response", status |-> st,
                         retryWhile |-> retryWhileCondition])]
  IN IF ShouldBreak(s.response, retryOn, retryWhileCondition)
       THEN AfterLoop(s)
     ELSE IF HandlerOnLastAttempt(customErrorCbs, st, s.attempts, retries)
       THEN CallHandler(s, "handlerInLoop", st, ctx.response,
                        ctx.responseData)
     ELSE IF DelayBeforeRetry(s.attempts, retries)
       THEN StartDelay(s, InnerCatch(s))
       ELSE NextRetry(s)

\* ---------------------------------------------------------------- actions
\* Base URL and headers of the tests' client.
DefaultBaseUrl == "https://jsonplaceholder.typicode.com"
DefaultHeaders == [h \in {"Content-Type"} |-> "application/json"]

\* A request of a client configured as in the tests, without middleware.
PlainRequest ==
  /\ baseUrl = DefaultBaseUrl
  /\ headers = DefaultHeaders
  /\ middlewares = <<>>

\* No execution has started.
NotStarted ==
  /\ pc = "idle"
  /\ isJson = FALSE
  /\ requestInit = [body |-> None]
  /\ attempts = 0
  /\ response = NoResponse
  /\ responseData = NoData
  /\ delay = 0
  /\ outcome = NoOutcome
  /\ settled = NotSettled
  /\ fetchCalls = 0
  /\ fetchSettled = 0
  /\ attemptLog = <<>>
  /\ onRetryLog = <<>>
  /\ sleeps = <<>>
  /\ handlerLog = <<>>
  /\ retryDelayLog = <<>>
  /\ validateResult = "none"
  /\ other = Fresh
  /\ registrations = <<>>
  /\ body = None
  /\ bodyJsonLog = <<>>
  /\ clientRetryConfig = retryConfig
  /\ setRetryLog = <<>>
  /\ aspi = [globalRequestInit |-> [baseUrl |-> baseUrl, headers |-> headers],
             middlewares |-> middlewares, customErrorCbs |-> customErrorCbs,
             calls |-> 0]
  /\ sibling = [customErrorCbs |-> customErrorCbs]
  /\ resultCall = NoResultCall

\* A request of a client that was not made throwable, with any retry
\* configuration.
Init ==
  /\ retryConfig \in RetryConfigs
  /\ customErrorCbs \in CbTables
  /\ schema \in BOOLEAN
  /\ bodySchemaIssues \in BOOLEAN
  /\ bodySchema = bodySchemaIssues
  /\ shouldBeResult = FALSE
  /\ clientThrowOnError = FALSE
  /\ throwOnError = clientThrowOnError
  /\ lastCall = "none"
  /\ PlainRequest
  /\ NotStarted

\* The issue list a validator reported for the body of response `respId`
\* (0: for the request body).
Issues(respId) == [kind |-> "issues", of |-> respId]

\* Variant: the body schema's issues are not looked at.
BodySchemaFailed_Never(issues) == FALSE

\* if (this.#bodySchemaIssues.length)
BodySchemaFailed(issues) == issues

\* Middlewares given to use(): the tests' one, which adds 'custom-key', and
\* one that adds a trace key.
Middlewares == {"customKey", "traceKey"}

\* middleware(init): a copy of init with the middleware's key added.
Apply(m, init) ==
  [init EXCEPT !.extra = @ \cup {IF m = "customKey" THEN "custom-key"
                                 ELSE "trace-key"}]

\* this.#localRequestInit
LocalRequestInit ==
  [body |-> body, baseUrl |-> baseUrl, headers |-> headers, extra |-> {}]

\* for (const middleware of this.#middlewares)
\*   requestInit = middleware(this.#localRequestInit);
RECURSIVE RunMiddlewares(_, _, _)
RunMiddlewares(local, mws, requestInit0) ==
  IF mws = <<>> THEN requestInit0
  ELSE RunMiddlewares(local, Tail(mws), Apply(Head(mws), local))

\* #request(): the RequestInit of the request as built.
request(local, mws) == [requestInit |-> RunMiddlewares(local, mws, local)]

\* Each step of an execution is a function of the execution's own record
\* s (the locals of that #makeRequest call) and of what the step receives;
\* the actions below apply it to the execution held in the variables.

\* json() / text() / blob(): entry of #makeRequest up to the first fetch().
ExecuteOf(s0, strategy) ==
  LET s == [s0 EXCEPT !.isJson = (strategy = "json"), !.attempts = 1]
  IN IF BodySchemaFailed(bodySchemaIssues)
       THEN Return(s, ErrCustom("parseError", 0, 0, Issues(0)))
       ELSE LoopHead([s EXCEPT !.requestInit =
                           request(LocalRequestInit, middlewares).requestInit])

Execute(strategy) ==
  /\ pc = "idle"
  /\ Commit(ExecuteOf(Cur, strategy))

\* fetch() resolves with a Response.
FetchResolveOf(s, status) ==
  [s EXCEPT !.pc = "parse", !.fetchSettled = @ + 1,
            !.response = [defined |-> TRUE, id |-> s.fetchCalls,
                          status |-> status]]

FetchResolve(status) ==
  /\ pc = "fetch"
  /\ Commit(FetchResolveOf(Cur, status))

\* fetch() rejects.
FetchRejectOf(s) ==
  InnerCatch([s EXCEPT !.fetchSettled = @ + 1,
                       !.attemptLog = Append(@, [kind |-> "throw",
                                                 status |-> 0,
                                                 retryWhile |-> FALSE])])

FetchReject ==
  /\ pc = "fetch"
  /\ Commit(FetchRejectOf(Cur))

\* After the body is decoded: the retryWhile call, or the decision at once.
AfterParse(s) ==
  IF retryWhile.kind # "unset"
    THEN [s EXCEPT !.pc = "retryWhile"]
    ELSE Decide(s, FALSE)

\* responseParser(response) settles: the body decodes, or it does not.
\* json() turns a failure into a CustomError value; text() and blob() let
\* the rejection through to the catch block.
ParserSettleOf(s0, decoded) ==
  IF decoded
    THEN AfterParse([s0 EXCEPT !.responseData =
                       [kind |-> "data", of |-> s0.response.id]])
    ELSE IF s0.isJson
      THEN LET d == [kind |-> "CustomError", of |-> s0.response.id]
               s == [s0 EXCEPT !.responseData = d,
                               !.attemptLog =
                                  Append(@, [kind |-> "jsonParseError",
                                             status |-> s0.response.status,
                                             retryWhile |-> FALSE])]
           IN IF IsCustomError(d)
                THEN Return(s, ErrCustom("jsonParseError", 0, 0, d))
                ELSE AfterParse(s)
      ELSE InnerCatch([s0 EXCEPT !.attemptLog =
                         Append(@, [kind |-> "bodyError", status |-> 0,
                                    retryWhile |-> FALSE])])

ParserSettle(decoded) ==
  /\ pc = "parse"
  /\ Commit(ParserSettleOf(Cur, decoded))

\* The awaited retryWhile(request, response) settles.
RetryWhileSettleOf(s) ==
  Decide(s, Await(retryWhileCall(retryWhile,
                                 makeResponse(s.response, s.responseData))))

RetryWhileSettle ==
  /\ pc = "retryWhile"
  /\ Commit(RetryWhileSettleOf(Cur))

\* The awaited retryDelay(remaining, total, request, response) settles.
RetryDelaySettleOf(s) ==
  LET call == Last(s.retryDelayLog)
  IN [s EXCEPT !.pc = "sleep",
               !.delay = ExponentialBackoff(call.remaining, call.total)]

RetryDelaySettle ==
  /\ pc = "retryDelay"
  /\ Commit(RetryDelaySettleOf(Cur))

\* The setTimeout(resolve, delay) promise resolves.
SleepDoneOf(s) == NextRetry([s EXCEPT !.sleeps = Append(@, s.delay)])

SleepDone ==
  /\ pc = "sleep"
  /\ Commit(SleepDoneOf(Cur))

\* The value returned by handler call number n.
HandlerResult(n) == [kind |-> "handlerResult", of |-> n]

\* A handler call ends: the callback returns a value, which becomes the
\* CustomError, or it throws; a throw in the loop body is caught by the
\* loop's catch, one after the loop by the outer catch, one inside the
\* outer catch leaves #makeRequest.
HandlerSettleOf(s0, throws) ==
  LET call == Last(s0.handlerLog)
      s == [s0 EXCEPT !.handlerLog[Len(s0.handlerLog)].result =
              IF throws THEN "threw" ELSE "returned"]
  IN IF ~throws
       THEN Return(s, ErrCustom(customErrorCbs[call.status].tag,
                                call.status, call.response,
                                HandlerResult(Len(s0.handlerLog))))
       ELSE IF s0.pc = "handlerInLoop" THEN InnerCatch(s)
       ELSE IF s0.pc = "handlerAfterLoop" THEN OuterCatch(s)
       ELSE Return(s, Thrown)

HandlerSettle(throws) ==
  /\ pc \in {"handlerInLoop", "handlerAfterLoop", "handlerInCatch"}
  /\ Commit(HandlerSettleOf(Cur, throws))

\* this.#schema['~standard'].validate(responseData) returns.
ValidateSettleOf(s0, result) ==
  LET s == [s0 EXCEPT !.validateResult = result]
  IN IF result = "promise" THEN OuterCatch(s)
     ELSE IF result = "issues"
       THEN Return(s, ErrCustom("parseError", 0, 0,
                                Issues(s0.responseData.of)))
       ELSE Return(s, OkResult(makeResponse(s0.response, s0.responseData),
                               [kind |-> "validated",
                                of |-> s0.responseData.of]))

ValidateSettle(result) ==
  /\ pc = "validate"
  /\ Commit(ValidateSettleOf(Cur, result))

Next ==
  \/ \E strategy \in Strategies : Execute(strategy)
  \/ \E status \in Statuses : FetchResolve(status)
  \/ FetchReject
  \/ \E decoded \in BOOLEAN : ParserSettle(decoded)
  \/ RetryWhileSettle
  \/ RetryDelaySettle
  \/ SleepDone
  \/ \E throws \in BOOLEAN : HandlerSettle(throws)
  \/ \E result \in ValidateResults : ValidateSettle(result)

Spec == Init /\ [][Next]_vars

\* The retry settings of the requests whose builder calls are explored:
\* retried once on a server error after a computed delay.
RegistrationRetryConfig ==
  [retries |-> Some(ConcurrentRetries),
   retryDelay |-> [kind |-> "function", ms |-> 0], retryOn |-> None,
   retryWhile |-> [kind |-> "serverError", async |-> TRUE],
   onRetry |-> FALSE]

\* ------------------------------------------------------------------- use()
MaxMiddlewares == 2

\* The middleware lists a client has after up to MaxMiddlewares use() calls.
RECURSIVE MiddlewareLists(_)
MiddlewareLists(n) ==
  IF n = 0 THEN {<<>>}
  ELSE MiddlewareLists(n - 1) \cup
       {Append(l, m) : l \in {k \in MiddlewareLists(n - 1) : Len(k) = n - 1},
                       m \in Middlewares}

\* A request of a client on which use() was called up to MaxMiddlewares
\* times: the constructor takes the client's list.
MiddlewareInit ==
  /\ retryConfig = RegistrationRetryConfig
  /\ customErrorCbs \in CbTables
  /\ schema = TRUE
  /\ bodySchemaIssues = FALSE
  /\ bodySchema = FALSE
  /\ shouldBeResult = FALSE
  /\ clientThrowOnError = FALSE
  /\ throwOnError = clientThrowOnError
  /\ lastCall = "none"
  /\ baseUrl = DefaultBaseUrl
  /\ headers = DefaultHeaders
  /\ middlewares \in MiddlewareLists(MaxMiddlewares)
  /\ NotStarted

MiddlewareSpec == MiddlewareInit /\ [][Next]_vars

\* ------------------------------------------------------------- setRetry()
MaxSetRetryCalls == 2

\* No field given: the retry configuration of a client that never called
\* setRetry (undefined).
NoRetryConfig ==
  [retries |-> None, retryDelay |-> [kind |-> "unset", ms |-> 0],
   retryOn |-> None, retryWhile |-> [kind |-> "unset", async |-> FALSE],
   onRetry |-> FALSE]

\* Arguments of setRetry(): the README's client-level and request-level
\* ones, the retry tests' (retries, retryOn, onRetry), a retryWhile alone,
\* and one giving a zero delay and an empty retryOn.
SetRetryArgs ==
  {[NoRetryConfig EXCEPT !.retries = Some(ReadmeRetries),
                         !.retryDelay = [kind |-> "number", ms |-> FixedDelay],
                         !.retryOn = Some({404})],
   [NoRetryConfig EXCEPT !.retryDelay = [kind |-> "function", ms |-> 0]],
   [NoRetryConfig EXCEPT !.retries = Some(ConcurrentRetries),
                         !.retryOn = Some({500}), !.onRetry = TRUE],
   [NoRetryConfig EXCEPT !.retryWhile = [kind |-> "serverError",
                                         async |-> TRUE]],
   [NoRetryConfig EXCEPT !.retryDelay = [kind |-> "number", ms |-> 0],
                         !.retryOn = Some({})]}

\* Variant: a setRetry() call replaces the whole configuration.
Merge_ReplacesAll(a, b) == b

\* { ...a, ...b }: the fields b gives replace those of a.
Merge(a, b) ==
  [retries |-> IF b.retries # None THEN b.retries ELSE a.retries,
   retryDelay |-> IF b.retryDelay.kind # "unset" THEN b.retryDelay
                  ELSE a.retryDelay,
   retryOn |-> IF b.retryOn # None THEN b.retryOn ELSE a.retryOn,
   retryWhile |-> IF b.retryWhile.kind # "unset" THEN b.retryWhile
                  ELSE a.retryWhile,
   onRetry |-> IF b.onRetry THEN b.onRetry ELSE a.onRetry]

\* setRetry(retry) on the request.
setRetry(retry) ==
  /\ pc = "idle"
  /\ Len(setRetryLog) < MaxSetRetryCalls
  /\ retryConfig' = Merge(retryConfig, retry)
  /\ setRetryLog' = Append(setRetryLog, retry)
  /\ UNCHANGED <<customErrorCbs, schema, bodySchemaIssues, shouldBeResult,
                 throwOnError, clientThrowOnError, lastCall, execVars, other,
                 registrations, bodySchema, body, bodyJsonLog,
                 clientRetryConfig, aspi, sibling, requestInitVars, resultCall>>

SetRetry == \E retry \in SetRetryArgs : setRetry(retry)

\* Retry configurations of the client: never set, or set by one setRetry
\* call on the client.
ClientRetryConfigs ==
  {NoRetryConfig} \cup {Merge(NoRetryConfig, a) : a \in SetRetryArgs}

\* A request just created by a client: the constructor takes the client's
\* retry configuration.
RetryConfigInit ==
  /\ retryConfig \in ClientRetryConfigs
  /\ customErrorCbs \in CbTables
  /\ schema = TRUE
  /\ bodySchemaIssues = FALSE
  /\ bodySchema = FALSE
  /\ shouldBeResult = FALSE
  /\ clientThrowOnError = FALSE
  /\ throwOnError = clientThrowOnError
  /\ lastCall = "none"
  /\ PlainRequest
  /\ NotStarted

RetryConfigNext ==
  \/ SetRetry
  \/ Next

RetryConfigSpec == RetryConfigInit /\ [][RetryConfigNext]_vars

\* ------------------------------------------------------------ bodyJson()
MaxBodyJsonCalls == 2

\* Objects given to bodyJson(), and what a body schema's validate answers.
Bodies == {[title |-> "a"], [title |-> "b"]}
BodyValidateResults == {"value", "issues", "promise"}

\* JSON.stringify of one of the Bodies, token by token.
JSONstringify(b) == <<"{", "\"title\"", ":", b.title, "}">>

\* bodyJson() assigns #localRequestInit.body in the else branch of
\* `if (data.issues)`, inside `if (this.#bodySchema)`.
bodyJsonSets(hasSchema, result) == hasSchema /\ result = "value"

\* bodyJson(b); `result` is what the body schema's validate answers when
\* one is registered.  A promise makes bodyJson throw to its caller.
bodyJson(b, result) ==
  /\ pc = "idle"
  /\ Len(bodyJsonLog) < MaxBodyJsonCalls
  /\ bodySchema \/ result = "value"
  /\ bodyJsonLog' = Append(bodyJsonLog,
                           [call |-> "bodyJson", arg |-> b,
                            schema |-> bodySchema, result |-> result])
  /\ body' = IF bodyJsonSets(bodySchema, result)
               THEN Some(JSONstringify(b)) ELSE body
  /\ bodySchemaIssues' =
       IF bodySchema /\ result = "issues" THEN TRUE ELSE bodySchemaIssues
  /\ UNCHANGED <<retryConfig, customErrorCbs, schema, shouldBeResult,
                 throwOnError, clientThrowOnError, lastCall, execVars, other,
                 registrations, bodySchema, clientRetryConfig, setRetryLog,
                 aspi, sibling, requestInitVars, resultCall>>

BodyJson ==
  \E b \in Bodies, result \in BodyValidateResults : bodyJson(b, result)

\* A BodyInit given to unsafeBody().
RawBodies == {<<"raw">>}

\* unsafeBody(raw): this.#localRequestInit.body = body
unsafeBody(raw) ==
  /\ pc = "idle"
  /\ Len(bodyJsonLog) < MaxBodyJsonCalls
  /\ bodyJsonLog' = Append(bodyJsonLog,
                           [call |-> "unsafeBody", arg |-> raw,
                            schema |-> FALSE, result |-> "value"])
  /\ body' = Some(raw)
  /\ UNCHANGED <<retryConfig, customErrorCbs, schema, bodySchemaIssues,
                 shouldBeResult, throwOnError, clientThrowOnError, lastCall,
                 execVars, other, registrations, bodySchema,
                 clientRetryConfig, setRetryLog, aspi, sibling,
                 requestInitVars, resultCall>>

UnsafeBody == \E raw \in RawBodies : unsafeBody(raw)

\* A request with or without a body schema, before any bodyJson() call.
BodyInit ==
  /\ retryConfig = RegistrationRetryConfig
  /\ customErrorCbs \in CbTables
  /\ schema = TRUE
  /\ bodySchemaIssues = FALSE
  /\ bodySchema \in BOOLEAN
  /\ shouldBeResult = FALSE
  /\ clientThrowOnError = FALSE
  /\ throwOnError = clientThrowOnError
  /\ lastCall = "none"
  /\ PlainRequest
  /\ NotStarted

BodyNext ==
  \/ BodyJson
  \/ UnsafeBody
  \/ Next

BodySpec == BodyInit /\ [][BodyNext]_vars

\* --------------------------------------------------- handler registration
MaxRegistrations == 2

\* Labels and tags of the registrations: notFound(cb),
\* internalServerError(cb) and error('customError', label, cb).
HandledLabels == {getHttpErrorStatus(c) : c \in HandledCodes}
TagsFor(label) == {TagOf(httpErrors[label]), "customError"}

\* Variant: an existing entry keeps its tag.
Register_KeepsTag(cbs, status, entry) ==
  [c \in DOMAIN cbs \cup {status} |->
     IF c # status THEN cbs[c]
     ELSE IF status \in DOMAIN cbs
       THEN [cb |-> entry.cb, tag |-> cbs[status].tag]
       ELSE entry]

\* this.#customErrorCbs[status] = { cb, tag }
Register(cbs, status, entry) ==
  [c \in DOMAIN cbs \cup {status} |-> IF c = status THEN entry ELSE cbs[c]]

\* error(tag, status, cb) on the client (level "client") or on the request
\* (level "request"): both write the one table the client handed to the
\* request's constructor, and to the constructor of every other Request
\* it made; the table is seen through all of them.
error(level, tag, label, cb) ==
  /\ pc = "idle"
  /\ Len(registrations) < MaxRegistrations
  /\ customErrorCbs' = Register(customErrorCbs, httpErrors[label],
                                [cb |-> cb, tag |-> tag])
  /\ aspi' = [aspi EXCEPT !.customErrorCbs = customErrorCbs']
  /\ sibling' = [sibling EXCEPT !.customErrorCbs = customErrorCbs']
  /\ registrations' = Append(registrations,
                             [level |-> level, status |-> httpErrors[label],
                              tag |-> tag, cb |-> cb])
  /\ UNCHANGED <<retryConfig, schema, bodySchemaIssues, shouldBeResult,
                 throwOnError, clientThrowOnError, lastCall, execVars, other,
                 bodySchema, body, bodyJsonLog, clientRetryConfig,
                 setRetryLog, requestInitVars, resultCall>>

AspiError ==
  \E label \in HandledLabels, cb \in Callbacks :
    \E tag \in TagsFor(label) : error("client", tag, label, cb)

RequestError ==
  \E label \in HandledLabels, cb \in Callbacks :
    \E tag \in TagsFor(label) : error("request", tag, label, cb)

\* A request of a client without handlers, with an output schema.
RegistrationInit ==
  /\ retryConfig = RegistrationRetryConfig
  /\ customErrorCbs = <<>>
  /\ schema = TRUE
  /\ bodySchemaIssues = FALSE
  /\ bodySchema = FALSE
  /\ shouldBeResult = FALSE
  /\ clientThrowOnError = FALSE
  /\ throwOnError = clientThrowOnError
  /\ lastCall = "none"
  /\ PlainRequest
  /\ NotStarted

RegistrationNext ==
  \/ AspiError
  \/ RequestError
  \/ Next

RegistrationSpec == RegistrationInit /\ [][RegistrationNext]_vars

\* ------------------------------------------- calls on the client, later
MaxClientCalls == 2

\* Arguments of the client's setters.
OtherBaseUrl == "https://mock.httpstatus.io"
BearerHeader == [key |-> "Authorization", value |-> "Bearer token"]
OtherHeaders == [h \in {"Accept"} |-> "text/plain"]
ClientSetRetryArgs == {a \in SetRetryArgs : a.retryOn = Some({404})}

\* A setter call on the client once the request exists: it assigns fields of
\* the client only; the request holds its own #localRequestInit (a spread
\* copy), and the retry configuration, middleware array and flag it was
\* constructed with.
ClientCall(a, retry, throw) ==
  /\ aspi.calls + Len(registrations) < MaxClientCalls
  /\ aspi' = [a EXCEPT !.calls = aspi.calls + 1]
  /\ clientRetryConfig' = retry
  /\ clientThrowOnError' = throw
  /\ UNCHANGED <<retryConfig, customErrorCbs, schema, bodySchemaIssues,
                 shouldBeResult, throwOnError, lastCall, execVars, other,
                 registrations, bodySchema, body, bodyJsonLog, setRetryLog,
                 sibling, requestInitVars, resultCall>>

\* this.#globalRequestInit.baseUrl = url
AspiSetBaseUrl ==
  /\ pc = "idle"
  /\ ClientCall([aspi EXCEPT !.globalRequestInit.baseUrl = OtherBaseUrl],
                clientRetryConfig, clientThrowOnError)

\* this.#globalRequestInit.headers = headers
AspiSetHeaders ==
  /\ pc = "idle"
  /\ ClientCall([aspi EXCEPT !.globalRequestInit.headers = OtherHeaders],
                clientRetryConfig, clientThrowOnError)

\* this.#globalRequestInit.headers = { ...headers, [key]: value }
AspiSetHeader ==
  LET old == aspi.globalRequestInit.headers
      new == [h \in DOMAIN old \cup {BearerHeader.key} |->
                IF h = BearerHeader.key THEN BearerHeader.value ELSE old[h]]
  IN  /\ pc = "idle"
      /\ ClientCall([aspi EXCEPT !.globalRequestInit.headers = new],
                    clientRetryConfig, clientThrowOnError)

\* this.#retryConfig = { ...this.#retryConfig, ...retry }
AspiSetRetry ==
  /\ pc = "idle"
  /\ \E retry \in ClientSetRetryArgs :
       ClientCall(aspi, Merge(clientRetryConfig, retry), clientThrowOnError)

\* this.#middlewares = [...this.#middlewares, fn]
AspiUse ==
  /\ pc = "idle"
  /\ Len(aspi.middlewares) < MaxMiddlewares
  /\ \E m \in Middlewares :
       ClientCall([aspi EXCEPT !.middlewares = Append(@, m)],
                  clientRetryConfig, clientThrowOnError)

\* this.#throwOnError = true
AspiThrowable ==
  /\ pc = "idle"
  /\ ClientCall(aspi, clientRetryConfig, TRUE)

\* error(), notFound(), ... on the client.
AspiErrorLater ==
  /\ aspi.calls + Len(registrations) < MaxClientCalls
  /\ AspiError

ClientNext ==
  \/ AspiSetBaseUrl
  \/ AspiSetHeaders
  \/ AspiSetHeader
  \/ AspiSetRetry
  \/ AspiUse
  \/ AspiThrowable
  \/ AspiErrorLater
  \/ Next

ClientSpec == RegistrationInit /\ [][ClientNext]_vars

\* ------------------------------------------------------ Result functions
\* JavaScript values the Result functions are given: strings, functions
\* (by name), handler objects (tag -> function name), null and undefined.
\* A Result is a record with a __tag field, an error a record with a tag.
JsString(str) == [string |-> str]
JsFunction(name) == [function |-> name]
JsNull == [null |-> TRUE]
Undefined == [undefined |-> TRUE]
TypeError == [tag |-> "TypeError"]

\* typeof x === 'string', '__tag' in x, and if (x) for an optional argument.
IsString(x) == "string" \in DOMAIN x
HasTag(x) == "__tag" \in DOMAIN x
Truthy(x) == "undefined" \notin DOMAIN x

ResultOk(value) == [value |-> value, __tag |-> "ok"]
ResultErr(e) == [error |-> e, __tag |-> "err"]
ResultIsOk(result) == result.__tag = "ok"
ResultIsErr(result) == ~ResultIsOk(result)

\* The inputs: Ok and Err results, and the callbacks of the README's and
\* the doc comments' examples.
ResultTags == {"notFoundError", "aspiError", "jsonParseError"}
ResultErrors == {[tag |-> t] : t \in ResultTags}
Results ==
  {ResultOk(JsString(v)) : v \in {"a", "b"}} \cup
  {ResultErr(e) : e \in ResultErrors}
MapFns == {"exclaim", "constant"}
MapErrFns == {"generalise", "suffix"}
MatchHandlers == [onOk |-> JsFunction("onOk"), onErr |-> JsFunction("onErr")]
HandlerObjects ==
  {[object |-> [t \in ts |-> JsFunction("log")]] : ts \in SUBSET ResultTags}

\* What a callback returns for its argument.
ReturnOf(name, arg) ==
  CASE name = "exclaim" -> JsString(arg.string \o "!")
    [] name = "constant" -> JsString("k")
    [] name = "generalise" -> [tag |-> "error"]
    [] name = "suffix" -> [tag |-> arg.tag \o "!"]
    [] name = "onOk" -> JsString("ok:" \o arg.string)
    [] name = "onErr" -> JsString("err:" \o arg.tag)
    [] name = "toException" -> [tag |-> "exception:" \o arg.tag]
    [] OTHER -> Undefined

\* How an evaluation ends: it returns or throws a value, having invoked
\* the callbacks listed in calls.
Returns(value, calls) ==
  [kind |-> "return", value |-> value, calls |-> calls]
Throws(value, calls) == [kind |-> "throw", value |-> value, calls |-> calls]

\* fn(arg): calling what is not a function throws a TypeError.
Invoke(fn, arg) ==
  IF "function" \in DOMAIN fn
  THEN Returns(ReturnOf(fn.function, arg),
                <<[fn |-> fn.function, arg |-> arg]>>)
  ELSE Throws(TypeError, <<>>)

\* obj[key]: reading a property of undefined throws a TypeError; a missing
\* property is undefined.
GetProperty(obj, key) ==
  IF "object" \notin DOMAIN obj THEN Throws(TypeError, <<>>)
  ELSE IF key \in DOMAIN obj.object THEN Returns(obj.object[key], <<>>)
  ELSE Returns(Undefined, <<>>)

\* ok(<call>), err(<call>), throw <call>, and `<call>; return v`.
OkOf(o) == IF o.kind = "return" THEN [o EXCEPT !.value = ResultOk(@)] ELSE o
ErrOf(o) == IF o.kind = "return" THEN [o EXCEPT !.value = ResultErr(@)] ELSE o
ThrowOf(o) == IF o.kind = "return" THEN [o EXCEPT !.kind = "throw"] ELSE o
ThenReturn(o, v) == IF o.kind = "return" THEN [o EXCEPT !.value = v] ELSE o

\* map: (self) => isOk(self) ? ok(mappingFn(self.value)) : self
mapClosure(mappingFn, self) ==
  IF ResultIsOk(self) THEN OkOf(Invoke(mappingFn, self.value))
  ELSE Returns(self, <<>>)

map(selfOrFn, fn) ==
  IF Truthy(fn)
  THEN IF ResultIsOk(selfOrFn) THEN OkOf(Invoke(fn, selfOrFn.value))
       ELSE Returns(selfOrFn, <<>>)
  ELSE [closure |-> "map", mappingFn |-> selfOrFn]

\* mapErr: (self) => isErr(self) ? err(mappingFn(self.error)) : self
mapErrClosure(mappingFn, self) ==
  IF ResultIsErr(self) THEN ErrOf(Invoke(mappingFn, self.error))
  ELSE Returns(self, <<>>)

mapErr(selfOrFn, fn) ==
  IF Truthy(fn)
  THEN IF ResultIsErr(selfOrFn) THEN ErrOf(Invoke(fn, selfOrFn.error))
       ELSE Returns(selfOrFn, <<>>)
  ELSE [closure |-> "mapErr", mappingFn |-> selfOrFn]

\* match: (self) => isOk(self) ? handlersObj.onOk(self.value)
\*                             : handlersObj.onErr(self.error)
matchClosure(handlersObj, self) ==
  IF ResultIsOk(self) THEN Invoke(handlersObj.onOk, self.value)
  ELSE Invoke(handlersObj.onErr, self.error)

match(selfOrHandlers, handlers) ==
  IF Truthy(handlers)
  THEN IF ResultIsOk(selfOrHandlers)
       THEN Invoke(handlers.onOk, selfOrHandlers.value)
       ELSE Invoke(handlers.onErr, selfOrHandlers.error)
  ELSE [closure |-> "match", handlersObj |-> selfOrHandlers]

\* getOrThrowWith: (self) => { if (isOk(self)) return self.value;
\*                             else throw throwFn(self.error); }
getOrThrowWithClosure(throwFn, self) ==
  IF ResultIsOk(self) THEN Returns(self.value, <<>>)
  ELSE ThrowOf(Invoke(throwFn, self.error))

getOrThrowWith(selfOrFn, fn) ==
  IF Truthy(fn)
  THEN IF ResultIsOk(selfOrFn) THEN Returns(selfOrFn.value, <<>>)
       ELSE ThrowOf(Invoke(fn, selfOrFn.error))
  ELSE [closure |-> "getOrThrowWith", throwFn |-> selfOrFn]

\* Variant: every error is caught, whatever its tag.
TagMatches_Always(e, tag) == TRUE

\* error.tag === tag
TagMatches(e, tag) == e.tag = tag

\* catchError, curried: (resultOrError) => { ... }, for a Result and for a
\* bare error.
catchErrorClosure(tag, fn, resultOrError) ==
  IF HasTag(resultOrError)
  THEN IF ResultIsErr(resultOrError) /\ TagMatches(resultOrError.error, tag)
       THEN ThenReturn(Invoke(fn, resultOrError.error), ResultOk(JsNull))
       ELSE Returns(resultOrError, <<>>)
  ELSE IF TagMatches(resultOrError, tag)
       THEN ThenReturn(Invoke(fn, resultOrError), Undefined)
       ELSE Returns(Undefined, <<>>)

catchError(resultOrErrorOrTag, tagOrFn, fnOrUndefined) ==
  IF IsString(resultOrErrorOrTag)
  THEN [closure |-> "catchError", tag |-> resultOrErrorOrTag.string,
        fn |-> tagOrFn]
  ELSE IF HasTag(resultOrErrorOrTag)
       THEN IF /\ ResultIsErr(resultOrErrorOrTag)
               /\ TagMatches(resultOrErrorOrTag.error, tagOrFn.string)
            THEN ThenReturn(Invoke(fnOrUndefined, resultOrErrorOrTag.error),
                            ResultOk(JsNull))
            ELSE Returns(resultOrErrorOrTag, <<>>)
       ELSE IF TagMatches(resultOrErrorOrTag, tagOrFn.string)
            THEN ThenReturn(Invoke(fnOrUndefined, resultOrErrorOrTag),
                            Undefined)
            ELSE Returns(Undefined, <<>>)

\* catchAllErrors, curried: the closure calls the second parameter of the
\* outer call (fnOrUndefined), as the direct form does.
catchAllErrorsClosure(fnOrUndefined, result) ==
  IF ResultIsErr(result)
  THEN ThenReturn(Invoke(fnOrUndefined, result.error), result)
  ELSE Returns(result, <<>>)

catchAllErrors(resultOrFn, fnOrUndefined) ==
  IF HasTag(resultOrFn)
  THEN IF ResultIsErr(resultOrFn)
       THEN ThenReturn(Invoke(fnOrUndefined, resultOrFn.error), resultOrFn)
       ELSE Returns(resultOrFn, <<>>)
  ELSE [closure |-> "catchAllErrors", fnOrUndefined |-> fnOrUndefined]

\* catchErrors, the body of the direct form and of the curried form's
\* closure; both read the second parameter of the outer call:
\* const handler = handlersOrUndefined[result.error.tag];
\* if (handler) handler(result.error);  return result;
catchErrorsBody(handlersOrUndefined, result) ==
  IF ResultIsErr(result)
  THEN LET handler == GetProperty(handlersOrUndefined, result.error.tag)
       IN  IF handler.kind = "throw" THEN handler
           ELSE IF Truthy(handler.value)
           THEN ThenReturn(Invoke(handler.value, result.error), result)
           ELSE Returns(result, <<>>)
  ELSE Returns(result, <<>>)

catchErrors(resultOrHandlers, handlersOrUndefined) ==
  IF HasTag(resultOrHandlers)
  THEN catchErrorsBody(handlersOrUndefined, resultOrHandlers)
  ELSE [closure |-> "catchErrors", handlersOrUndefined |-> handlersOrUndefined]

\* closure(self): the function a curried call returned, applied.
CallClosure(c, self) ==
  CASE c.closure = "map" -> mapClosure(c.mappingFn, self)
    [] c.closure = "mapErr" -> mapErrClosure(c.mappingFn, self)
    [] c.closure = "match" -> matchClosure(c.handlersObj, self)
    [] c.closure = "getOrThrowWith" -> getOrThrowWithClosure(c.throwFn, self)
    [] c.closure = "catchError" -> catchErrorClosure(c.tag, c.fn, self)
    [] c.closure = "catchAllErrors" ->
         catchAllErrorsClosure(c.fnOrUndefined, self)
    [] c.closure = "catchErrors" ->
         catchErrorsBody(c.handlersOrUndefined, self)

\* A call of a Result function is made and its end recorded.
Called(fn, form, self, args, out) ==
  /\ resultCall' = [fn |-> fn, self |-> self, form |-> form, args |-> args,
                    out |-> out]
  /\ UNCHANGED <<cfgVars, execVars, other>>

\* Each function is called in its direct form f(result, args) or in its
\* curried form f(args)(result).
Forms == {"direct", "curried"}

Map ==
  \E self \in Results, f \in MapFns, form \in Forms :
    Called("map", form, self, <<JsFunction(f)>>,
           IF form = "direct"
           THEN map(self, JsFunction(f))
           ELSE CallClosure(map(JsFunction(f), Undefined),
                            self))

MapErr ==
  \E self \in Results, f \in MapErrFns, form \in Forms :
    Called("mapErr", form, self, <<JsFunction(f)>>,
           IF form = "direct"
           THEN mapErr(self, JsFunction(f))
           ELSE CallClosure(mapErr(JsFunction(f), Undefined),
                            self))

Match ==
  \E self \in Results, form \in Forms :
    Called("match", form, self, <<MatchHandlers>>,
           IF form = "direct"
           THEN match(self, MatchHandlers)
           ELSE CallClosure(match(MatchHandlers, Undefined),
                            self))

GetOrThrowWith ==
  \E self \in Results, form \in Forms :
    Called("getOrThrowWith", form, self, <<JsFunction("toException")>>,
           IF form = "direct"
           THEN getOrThrowWith(self, JsFunction("toException"))
           ELSE CallClosure(getOrThrowWith(JsFunction("toException"),
                                           Undefined),
                            self))

CatchError ==
  \E self \in Results \cup ResultErrors, tag \in ResultTags, form \in Forms :
    Called("catchError", form, self, <<JsString(tag), JsFunction("log")>>,
           IF form = "direct"
           THEN catchError(self, JsString(tag), JsFunction("log"))
           ELSE CallClosure(catchError(JsString(tag), JsFunction("log"),
                                       Undefined),
                            self))

CatchAllErrors ==
  \E self \in Results, form \in Forms :
    Called("catchAllErrors", form, self, <<JsFunction("log")>>,
           IF form = "direct"
           THEN catchAllErrors(self, JsFunction("log"))
           ELSE CallClosure(catchAllErrors(JsFunction("log"), Undefined),
                            self))

CatchErrors ==
  \E self \in Results, handlers \in HandlerObjects, form \in Forms :
    Called("catchErrors", form, self, <<handlers>>,
           IF form = "direct"
           THEN catchErrors(self, handlers)
           ELSE CallClosure(catchErrors(handlers, Undefined),
                            self))

ResultNext ==
  \/ Map
  \/ MapErr
  \/ Match
  \/ GetOrThrowWith
  \/ CatchError
  \/ CatchAllErrors
  \/ CatchErrors

ResultSpec == RegistrationInit /\ [][ResultNext]_vars

\* ------------------------------------------------ two executions at once
\* The steps an execution in state s can take: the continuation of
\* whatever it awaits, with everything the awaited promise can settle to.
StepsOf(s) ==
  IF s.pc = "idle" THEN {ExecuteOf(s, strategy) : strategy \in Strategies}
  ELSE IF s.pc = "fetch"
    THEN {FetchResolveOf(s, status) : status \in Statuses}
           \cup {FetchRejectOf(s)}
  ELSE IF s.pc = "parse"
    THEN {ParserSettleOf(s, decoded) : decoded \in BOOLEAN}
  ELSE IF s.pc = "retryWhile" THEN {RetryWhileSettleOf(s)}
  ELSE IF s.pc = "retryDelay" THEN {RetryDelaySettleOf(s)}
  ELSE IF s.pc = "sleep" THEN {SleepDoneOf(s)}
  ELSE IF s.pc \in {"handlerInLoop", "handlerAfterLoop", "handlerInCatch"}
    THEN {HandlerSettleOf(s, throws) : throws \in BOOLEAN}
  ELSE IF s.pc = "validate"
    THEN {ValidateSettleOf(s, result) : result \in ValidateResults}
  ELSE {}

\* Variant: the attempt counter and the last response are fields shared by
\* the executions instead of locals of each call.
CommitOther_SharedLocals(t) ==
  /\ other' = t
  /\ attempts' = t.attempts
  /\ response' = t.response
  /\ UNCHANGED <<cfgVars, pc, isJson, requestInit, responseData, delay,
                 outcome, settled,
                 fetchCalls, fetchSettled, attemptLog, onRetryLog, sleeps,
                 handlerLog, retryDelayLog, validateResult, resultCall>>

\* `let attempts = 1; let response; let responseData;`: a step of the
\* second call writes that call's own locals.
CommitOther(t) ==
  /\ other' = t
  /\ UNCHANGED <<cfgVars, execVars, resultCall>>

\* json() / text() / blob() is called a second time on the request, and
\* that call's continuations run.
OtherStep == \E t \in StepsOf(other) : CommitOther(t)

\* Retry configurations of the concurrent executions: two attempts (as
\* in the retry tests) under each of the ProjectionProfiles.
ConcurrentRetryConfigs ==
  {[retries |-> Some(ConcurrentRetries), retryDelay |-> p.retryDelay,
    retryOn |-> p.retryOn, retryWhile |-> p.retryWhile,
    onRetry |-> p.onRetry] : p \in ProjectionProfiles}

ConcurrentInit ==
  /\ retryConfig \in ConcurrentRetryConfigs
  /\ customErrorCbs \in CbTables
  /\ schema \in BOOLEAN
  /\ bodySchemaIssues = FALSE
  /\ bodySchema = FALSE
  /\ shouldBeResult = FALSE
  /\ clientThrowOnError = FALSE
  /\ throwOnError = clientThrowOnError
  /\ lastCall = "none"
  /\ PlainRequest
  /\ NotStarted

ConcurrentNext ==
  \/ Next
  \/ OtherStep

ConcurrentSpec == ConcurrentInit /\ [][ConcurrentNext]_vars

\* ------------------------------------------------- projection of the outcome
\* The flags #shouldBeResult and #throwOnError as one record.
Flags == [shouldBeResult |-> shouldBeResult, throwOnError |-> throwOnError]

\* Variant: withResult() leaves #throwOnError as it is.
withResult_KeepsThrow(f) == [f EXCEPT !.shouldBeResult = TRUE]

\* withResult(): this.#throwOnError = false; this.#shouldBeResult = true
withResult(f) == [f EXCEPT !.throwOnError = FALSE, !.shouldBeResult = TRUE]

\* throwable(): this.#shouldBeResult = false; this.#throwOnError = true
throwable(f) == [f EXCEPT !.shouldBeResult = FALSE, !.throwOnError = TRUE]

SetFlags(f, call) ==
  /\ shouldBeResult' = f.shouldBeResult
  /\ throwOnError' = f.throwOnError
  /\ lastCall' = call
  /\ UNCHANGED <<retryConfig, customErrorCbs, schema, bodySchemaIssues,
                 clientThrowOnError, execVars, other, registrations,
                 bodySchema, body, bodyJsonLog, clientRetryConfig,
                 setRetryLog, aspi, sibling, requestInitVars, resultCall>>

\* The builder calls, made before the request is executed.
WithResult ==
  /\ pc = "idle"
  /\ SetFlags(withResult(Flags), "withResult")

Throwable ==
  /\ pc = "idle"
  /\ SetFlags(throwable(Flags), "throwable")

\* A request of any client, made throwable or not (the constructor copies
\* the client's throwOnError), with one of the ProjectionRetryConfigs.
ProjectionInit ==
  /\ retryConfig \in ProjectionRetryConfigs
  /\ customErrorCbs \in CbTables
  /\ schema \in BOOLEAN
  /\ bodySchemaIssues \in BOOLEAN
  /\ bodySchema = bodySchemaIssues
  /\ shouldBeResult = FALSE
  /\ clientThrowOnError \in BOOLEAN
  /\ throwOnError = clientThrowOnError
  /\ lastCall = "none"
  /\ PlainRequest
  /\ NotStarted

ProjectionNext ==
  \/ WithResult
  \/ Throwable
  \/ Next

ProjectionSpec == ProjectionInit /\ [][ProjectionNext]_vars

\* Every settled promise's continuation is run: an execution that can take
\* a step takes one.
FairProjectionSpec == ProjectionSpec /\ WF_vars(Next)

TypeOK ==
  /\ pc \in {"idle", "fetch", "parse", "retryWhile", "retryDelay", "sleep",
             "handlerInLoop", "handlerAfterLoop", "handlerInCatch",
             "validate", "done"}
  /\ fetchCalls \in 0..(MaxRetries + 1)
  /\ fetchSettled \in {fetchCalls, fetchCalls - 1}
  /\ lastCall \in {"none"} \cup BuilderCalls
  /\ validateResult \in {"none"} \cup ValidateResults
  /\ settled.how \in {"none", "return", "throw"}

\* ------------------------------------------------------------- properties
Done == pc = "done"

\* The attempt ended with a decoded response (a response context exists).
IsResponse(e) == e.kind = "response"
IsFailure(e) == IsResponse(e) /\ ~(e.status >= 200 /\ e.status < 300)
IsSuccess(e) == IsResponse(e) /\ e.status >= 200 /\ e.status < 300

\* What the configured retryWhile predicate answers for an attempt's
\* response.
PredicateTrue(e) ==
  \/ retryWhile.kind = "always"
  \/ retryWhile.kind = "serverError" /\ e.status >= 500

\* The attempt failed with a status listed in retryOn.
RetryOnFailure(e) == IsFailure(e) /\ e.status \in retryOn

\* The attempt failed with a retry-triggering response.
TriggeringFailure(e) ==
  IsFailure(e) /\ (e.status \in retryOn \/ PredicateTrue(e))

Attempts == 1..Len(attemptLog)
EveryAttempt(P(_)) ==
  /\ attemptLog # <<>>
  /\ \A i \in Attempts : P(attemptLog[i])

\* No handler call has thrown.
HandlersReturned ==
  \A i \in 1..Len(handlerLog) : handlerLog[i].result # "threw"

\* The loop has been left: what remains is the handler call, the schema
\* validation and the return.
LoopOver ==
  pc \in {"handlerInLoop", "handlerAfterLoop", "handlerInCatch", "validate",
          "done"}

\* Nothing observable happens in a step besides what ends the execution.
NoRetryActivity ==
  /\ fetchCalls' = fetchCalls
  /\ sleeps' = sleeps
  /\ onRetryLog' = onRetryLog
  /\ retryDelayLog' = retryDelayLog

\* The step finishes an attempt, which ends as e.
AttemptEnds(P(_)) ==
  /\ Len(attemptLog') = Len(attemptLog) + 1
  /\ P(Last(attemptLog'))

\* C1: with retries unset, a finished execution that was not stopped by
\* the body schema has issued exactly one fetch, whatever the first
\* response was and also when fetch threw; no second fetch is ever issued.
C1_SingleCallByDefault ==
  retryConfig.retries = None =>
    /\ fetchCalls <= 1
    /\ (Done /\ ~bodySchemaIssues) => fetchCalls = 1

C1_Witness ==
  /\ Done
  /\ retryConfig.retries = None
  /\ fetchCalls = 1
  /\ Len(attemptLog) = 1
  /\ IsFailure(attemptLog[1])
  /\ attemptLog[1].status \in retryOn

\* C2: with retries = N >= 1 and every attempt answering a non-2xx status
\* listed in retryOn, the finished execution has issued exactly N fetches
\* and its outcome is the failure for the last status: the registered
\* handler's CustomError, or an AspiError carrying that status.
C2_ExactlyNCalls ==
  (Done /\ retries >= 1 /\ EveryAttempt(RetryOnFailure)) =>
    LET st == Last(attemptLog).status IN
    /\ fetchCalls = retries
    /\ HandlersReturned =>
         /\ outcome.kind = "err"
         /\ outcome.status = st
         /\ outcome.response = retries
         /\ IF st \in DOMAIN customErrorCbs
              THEN outcome.tag = customErrorCbs[st].tag
              ELSE /\ outcome.tag = "aspiError"
                   /\ outcome.statusText = getHttpErrorStatus(st)

C2_Witness ==
  /\ Done
  /\ retries = 3
  /\ EveryAttempt(RetryOnFailure)
  /\ fetchCalls = 3
  /\ outcome.tag = "aspiError"
  /\ outcome.status = 500

\* C3 (as stated): with retries = N and every attempt failing with a status
\* in retryOn, onRetry has been invoked exactly N-1 times at the end.
C3_Original ==
  (Done /\ retries >= 1 /\ onRetry /\ EveryAttempt(RetryOnFailure)) =>
    Len(onRetryLog) = retries - 1

\* C3 (amended): under the same premise onRetry has been invoked N times
\* when no handler is registered for the last status (once after every
\* attempt, the last one included) and N-1 times when one is registered.
C3_OnRetryCount ==
  (Done /\ retries >= 1 /\ onRetry /\ EveryAttempt(RetryOnFailure)) =>
    Len(onRetryLog) =
      IF Last(attemptLog).status \in DOMAIN customErrorCbs
        THEN retries - 1
        ELSE retries

C3_Witness ==
  /\ Done
  /\ retries = 3
  /\ onRetry
  /\ EveryAttempt(RetryOnFailure)
  /\ Last(attemptLog).status \in DOMAIN customErrorCbs
  /\ Len(onRetryLog) = 2

\* C4: with no error handler registered, retries = N and every attempt
\* failing with a retry-triggering response (status in retryOn, or
\* retryWhile true), onRetry has been invoked exactly N times at the end.
C4_OnRetryNTimes ==
  (Done /\ retries >= 1 /\ onRetry /\ DOMAIN customErrorCbs = {}
        /\ EveryAttempt(TriggeringFailure)) =>
    Len(onRetryLog) = retries

C4_Witness ==
  /\ Done
  /\ retries = 3
  /\ onRetry
  /\ DOMAIN customErrorCbs = {}
  /\ EveryAttempt(TriggeringFailure)
  /\ retryOn = {}
  /\ Len(onRetryLog) = 3

\* C5: when retryWhile answers true on every attempt (returned directly or
\* through a promise), retries = N and every response is non-2xx, exactly
\* N fetches have been issued at the end, also with retryOn empty.
C5_PredicateDrivenRetry ==
  (Done /\ retries >= 1 /\ retryWhile.kind = "always"
        /\ EveryAttempt(IsFailure)) =>
    /\ fetchCalls = retries
    /\ \A i \in Attempts : attemptLog[i].retryWhile

C5_Witness ==
  /\ Done
  /\ retries = 3
  /\ retryWhile.kind = "always"
  /\ retryWhile.async
  /\ retryOn = {}
  /\ EveryAttempt(IsFailure)
  /\ fetchCalls = 3

\* The loop was left after an attempt that ended as P.
LeftAfter(P(_)) == LoopOver /\ attemptLog # <<>> /\ P(Last(attemptLog))

\* C6: the step in which an attempt ends with a 2xx response leaves the
\* loop, and from then on (schema validation, return) no fetch is issued,
\* no delay is computed or slept and onRetry is not called, whatever
\* retryOn, retryWhile and the remaining attempts are.
C6_SuccessNeverRetries ==
  [][/\ AttemptEnds(IsSuccess) => (LoopOver' /\ NoRetryActivity)
     /\ LeftAfter(IsSuccess) => (LeftAfter(IsSuccess)' /\ NoRetryActivity)
     /\ ~Done]_vars

C6_Witness ==
  /\ Done
  /\ retries = 3
  /\ retryWhile.kind = "always"
  /\ retryOn # {}
  /\ Len(attemptLog) = 1
  /\ IsSuccess(attemptLog[1])
  /\ fetchCalls = 1
  /\ outcome.kind = "ok"

\* The attempt returned a non-2xx response that meets neither trigger.
UntriggeredFailure(e) == IsFailure(e) /\ ~TriggeringFailure(e)

\* C7: a fetch follows an attempt that returned a non-2xx response only if
\* fewer than `retries` attempts had been made and the status is in retryOn
\* or retryWhile is true for that response; the step in which an attempt
\* ends with a non-2xx response meeting neither trigger leaves the loop,
\* and from then on (handler call, return of the failure) there is no
\* fetch, no delay and no onRetry call.
C7_RetryOnlyWhenTriggered ==
  /\ [](\A i \in Attempts :
          (IsFailure(attemptLog[i]) /\ fetchCalls > i) =>
            /\ i < retries
            /\ attemptLog[i].status \in retryOn \/ PredicateTrue(attemptLog[i]))
  /\ [][/\ AttemptEnds(UntriggeredFailure) =>
            (LoopOver' /\ NoRetryActivity /\ outcome'.kind # "ok")
        /\ LeftAfter(UntriggeredFailure) =>
            (LoopOver' /\ NoRetryActivity /\ outcome'.kind # "ok")]_vars

C7_Witness ==
  /\ Done
  /\ retries = 3
  /\ onRetry
  /\ retryWhile.kind = "serverError"
  /\ Len(attemptLog) = 1
  /\ IsFailure(attemptLog[1])
  /\ ~TriggeringFailure(attemptLog[1])
  /\ fetchCalls = 1
  /\ onRetryLog = <<>>
  /\ sleeps = <<>>

\* C8 (as stated): when fetch throws on an attempt that is not the last
\* allowed one, a further fetch is issued after a delay, for every retry
\* configuration and also on the very first attempt.
C8_ThrowIsRetried ==
  Done =>
    \A i \in Attempts :
      (attemptLog[i].kind = "throw" /\ i < retries) =>
        (fetchCalls > i /\ Len(sleeps) >= i)

\* C9 (as stated): when fetch throws on the last allowed attempt the
\* outcome is an AspiError with status 500 / INTERNAL_SERVER_ERROR, for
\* every set of registered (returning) handlers.
LastAttemptThrew ==
  /\ Done
  /\ attemptLog # <<>>
  /\ Last(attemptLog).kind = "throw"
  /\ Len(attemptLog) = retries

C9_Original ==
  (LastAttemptThrew /\ HandlersReturned) =>
    outcome = ErrAspi(500, "INTERNAL_SERVER_ERROR", 0, NoData)

\* C9 (amended): when fetch throws on the last allowed attempt the outcome
\* is an AspiError with status 500 / INTERNAL_SERVER_ERROR if no handler is
\* registered for 500; if one is registered it is invoked once with the
\* synthesized 500 response and the outcome is its CustomError (or its
\* exception, if it throws).
C9_TerminalThrow ==
  LastAttemptThrew =>
    IF 500 \notin DOMAIN customErrorCbs
      THEN /\ outcome = ErrAspi(500, "INTERNAL_SERVER_ERROR", 0, NoData)
           /\ handlerLog = <<>>
      ELSE /\ Len(handlerLog) = 1
           /\ handlerLog[1].status = 500
           /\ handlerLog[1].response = 0
           /\ IF handlerLog[1].result = "threw"
                THEN outcome.kind = "throw"
                ELSE /\ outcome.kind = "err"
                     /\ outcome.tag = customErrorCbs[500].tag
                     /\ outcome.status = 500

C9_Witness ==
  /\ LastAttemptThrew
  /\ retries = 2
  /\ 500 \in DOMAIN customErrorCbs
  /\ outcome.kind = "err"
  /\ outcome.tag = "internalServerError"

\* C10: under json(), once the body of a response has failed to parse the
\* execution is over with a 'jsonParseError' failure: no fetch was issued
\* after that response, and the step that met the parse failure made no
\* onRetry call, no delay and no handler call.
JsonParseFailed == isJson /\ responseData.kind = "CustomError"

C10_JsonParseErrorIsTerminal ==
  /\ [](JsonParseFailed =>
          /\ Done
          /\ outcome.kind = "err"
          /\ outcome.tag = "jsonParseError"
          /\ fetchCalls = responseData.of
          /\ handlerLog = <<>>)
  /\ [][(~JsonParseFailed /\ JsonParseFailed') =>
          (NoRetryActivity /\ handlerLog' = handlerLog)]_vars

C10_Witness ==
  /\ Done
  /\ JsonParseFailed
  /\ retries = 3
  /\ fetchCalls = 1
  /\ response.status = 500
  /\ 500 \in retryOn
  /\ 500 \in DOMAIN customErrorCbs
  /\ retryWhile.kind = "always"
  /\ outcome.tag = "jsonParseError"

\* C11: when the body schema has rejected the body given to bodyJson(),
\* the execution issues no fetch at all and ends, in its first step, with
\* a 'parseError' failure that carries the issues reported for the body.
C11_BodySchemaShortCircuit ==
  bodySchemaIssues =>
    /\ fetchCalls = 0
    /\ pc \in {"idle", "done"}
    /\ attemptLog = <<>>
    /\ handlerLog = <<>>
    /\ Done => outcome = ErrCustom("parseError", 0, 0, Issues(0))

C11_Witness ==
  /\ Done
  /\ bodySchemaIssues
  /\ retries = 3
  /\ fetchCalls = 0
  /\ outcome.kind = "err"
  /\ outcome.tag = "parseError"
  /\ outcome.data = Issues(0)

\* The value the output schema's validate produced for the body of
\* response `respId`.
Validated(respId) == [kind |-> "validated", of |-> respId]

\* The execution ended after a terminal 2xx response while an output
\* schema was registered (and validate, if called, did not return a
\* promise).
SuccessWithSchema ==
  Done /\ LeftAfter(IsSuccess) /\ schema /\ validateResult # "promise"

\* C12 (as stated): after a terminal 2xx response with an output schema
\* registered, for json(), text() and blob() alike, the outcome is the
\* 'parseError' failure with the validator's issues, or the Success whose
\* data is the validator's output.
C12_Original ==
  SuccessWithSchema =>
    \/ /\ validateResult = "issues"
       /\ outcome = ErrCustom("parseError", 0, 0, Issues(response.id))
    \/ /\ validateResult = "value"
       /\ outcome.kind = "ok"
       /\ outcome.data = Validated(response.id)

\* C12 (amended): after a terminal 2xx response with an output schema
\* registered, json() calls the validator and ends with the 'parseError'
\* failure carrying the issues (not 'jsonParseError') when it reports
\* issues, and with the Success whose data is the validator's output when
\* it reports a value; text() and blob() do not call the validator and
\* end with the Success carrying the decoded body.  From the validate
\* call on, no fetch is issued, no delay is made and onRetry is not
\* called.
C12_SchemaValidation ==
  /\ [](SuccessWithSchema =>
          IF isJson
            THEN /\ validateResult \in {"issues", "value"}
                 /\ validateResult = "issues" =>
                      /\ outcome =
                           ErrCustom("parseError", 0, 0, Issues(response.id))
                      /\ outcome.tag # "jsonParseError"
                 /\ validateResult = "value" =>
                      outcome =
                        OkResult(makeResponse(response, responseData),
                                 Validated(response.id))
            ELSE /\ validateResult = "none"
                 /\ outcome = OkResult(makeResponse(response, responseData),
                                       [kind |-> "data", of |-> response.id]))
  /\ [][pc = "validate" => (NoRetryActivity /\ LoopOver')]_vars

C12_Witness ==
  /\ Done
  /\ isJson
  /\ schema
  /\ retries = 3
  /\ retryWhile.kind = "always"
  /\ LeftAfter(IsSuccess)
  /\ validateResult = "issues"
  /\ outcome.tag = "parseError"
  /\ outcome.data = Issues(1)
  /\ fetchCalls = 1

\* The execution ended after a terminal attempt that returned a non-2xx
\* status.
TerminalFailure == Done /\ LeftAfter(IsFailure)
TerminalStatus == Last(attemptLog).status

\* What each projection makes of the failure value e.
PairOfFailure(e) ==
  [how |-> "return", shape |-> "pair", result |-> NoOutcome,
   payload |-> Null, failure |-> Some(e)]
ThrowOfFailure(e) ==
  [how |-> "throw", shape |-> "error", result |-> NoOutcome,
   payload |-> Null, failure |-> Some(e)]
ResultOf(o) ==
  [how |-> "return", shape |-> "result", result |-> o, payload |-> Null,
   failure |-> Null]

\* C13: when the terminal attempt returned a non-2xx status S for which a
\* handler is registered (and the handler returns), that handler was called
\* once, with the response of that attempt, and the outcome is the failure
\* carrying the handler's tag and return value, not an AspiError; the
\* caller gets it as slot 1 of the pair, as the Err of the Result or as the
\* thrown value, according to the projection selected.
C13_HandlerOutcome ==
  (TerminalFailure /\ TerminalStatus \in DOMAIN customErrorCbs
                   /\ HandlersReturned) =>
    LET e == [tag |-> TagOf(TerminalStatus), status |-> TerminalStatus,
              statusText |-> "", response |-> Len(attemptLog),
              data |-> HandlerResult(1)]
    IN /\ Len(handlerLog) = 1
       /\ handlerLog[1].status = TerminalStatus
       /\ handlerLog[1].response = Len(attemptLog)
       /\ outcome.kind = "err"
       /\ outcome.tag # "aspiError"
       /\ ResultError(outcome) = e
       /\ settled = IF shouldBeResult THEN ResultOf(outcome)
                    ELSE IF throwOnError THEN ThrowOfFailure(e)
                    ELSE PairOfFailure(e)

C13_Witness ==
  /\ TerminalFailure
  /\ TerminalStatus = 404
  /\ retries = 3
  /\ Len(attemptLog) = 3
  /\ lastCall = "throwable"
  /\ outcome.tag = "notFoundError"
  /\ outcome.data = HandlerResult(1)
  /\ settled.how = "throw"
  /\ settled.shape = "error"

\* C14: when the terminal attempt returned a non-2xx status S for which no
\* handler is registered, no handler was called and the outcome is an
\* AspiError (tag 'aspiError') whose response carries S, the label of S in
\* the status table, the response of that attempt and its decoded body.
C14_AspiErrorOutcome ==
  (TerminalFailure /\ TerminalStatus \notin DOMAIN customErrorCbs) =>
    /\ handlerLog = <<>>
    /\ outcome.kind = "err"
    /\ outcome.tag = "aspiError"
    /\ outcome.status = TerminalStatus
    /\ outcome.statusText \in DOMAIN httpErrors
    /\ httpErrors[outcome.statusText] = TerminalStatus
    /\ outcome.response = Len(attemptLog)
    /\ outcome.data = [kind |-> "data", of |-> Len(attemptLog)]

C14_Witness ==
  /\ TerminalFailure
  /\ TerminalStatus = 404
  /\ DOMAIN customErrorCbs = {500}
  /\ retries = 3
  /\ Len(attemptLog) = 3
  /\ outcome.tag = "aspiError"
  /\ outcome.statusText = "NOT_FOUND"
  /\ outcome.response = 3
  /\ outcome.data.of = 3

\* The attempt failed with a retry-triggering status that has a handler.
TriggeringHandled(e) ==
  TriggeringFailure(e) /\ e.status \in DOMAIN customErrorCbs

\* C15: when an attempt ends with a non-2xx status that is retry-triggering
\* and has a handler, the handler is called in that step only if it is the
\* last allowed attempt; on an earlier attempt no handler is called, the
\* delay starts and a further fetch follows.  No handler call is ever made
\* with the response of an earlier attempt that was retry-triggering.
C15_RetryBeforeHandler ==
  /\ [][AttemptEnds(TriggeringHandled) =>
          IF Len(attemptLog') < retries
            THEN /\ handlerLog' = handlerLog
                 /\ pc' \in {"retryDelay", "sleep"}
            ELSE /\ Len(attemptLog') = retries
                 /\ Len(handlerLog') = Len(handlerLog) + 1
                 /\ Last(handlerLog').response = retries]_vars
  /\ [](\A j \in 1..Len(handlerLog) :
          LET k == handlerLog[j].response
          IN (k # 0 /\ TriggeringFailure(attemptLog[k])) => k = retries)
  /\ [](Done => \A i \in Attempts :
                  (TriggeringHandled(attemptLog[i]) /\ i < retries) =>
                    fetchCalls > i)

C15_Witness ==
  /\ Done
  /\ retries = 3
  /\ EveryAttempt(TriggeringHandled)
  /\ fetchCalls = 3
  /\ Len(handlerLog) = 1
  /\ handlerLog[1].response = 3
  /\ handlerLog[1].result = "returned"
  /\ Len(sleeps) = 2

\* C16 (as stated): in every execution at most one handler call is made,
\* and exactly one when the outcome is a handler-produced CustomError.
C16_AtMostOneHandlerCall ==
  /\ Len(handlerLog) <= 1
  /\ (Done /\ outcome.data.kind = "handlerResult") => Len(handlerLog) = 1

\* C17 (as stated): when a handler call has thrown, json()/text()/blob()
\* settle by raising that exception in every projection mode; #makeRequest
\* returns no Result for it.
C17_HandlerThrowPropagates ==
  (Done /\ ~HandlersReturned) =>
    /\ outcome.kind = "throw"
    /\ settled.how = "throw"
    /\ settled.shape = "exception"

\* C18: for every Result r that #makeRequest returns, the pair projection
\* returns two slots of which exactly one is not null (slot 0 the payload
\* of a Success, slot 1 the failure value); the throwing projection
\* returns the payload the pair has in slot 0, or throws the value the
\* pair has in slot 1; the Result projection returns r itself; and what
\* the caller gets is the projection selected by the flags.
C18_ProjectionEquivalence ==
  (Done /\ outcome.kind \in {"ok", "err"}) =>
    LET pair == mapResponse(FALSE, FALSE, outcome)
        throwing == mapResponse(FALSE, TRUE, outcome)
        tagged == mapResponse(TRUE, FALSE, outcome)
    IN /\ pair.how = "return"
       /\ pair.shape = "pair"
       /\ (pair.payload = Null) # (pair.failure = Null)
       /\ isOk(outcome) =>
            /\ pair.payload = Some(ResultValue(outcome))
            /\ throwing.how = "return"
            /\ throwing.shape = "value"
            /\ throwing.payload = pair.payload
            /\ throwing.failure = Null
       /\ isErr(outcome) =>
            /\ pair.failure = Some(ResultError(outcome))
            /\ throwing.how = "throw"
            /\ throwing.shape = "error"
            /\ throwing.failure = pair.failure
            /\ throwing.payload = Null
       /\ tagged.how = "return"
       /\ tagged.shape = "result"
       /\ tagged.result = outcome
       /\ settled = IF shouldBeResult THEN tagged
                    ELSE IF throwOnError THEN throwing
                    ELSE pair

C18_Witness ==
  /\ Done
  /\ throwOnError
  /\ isErr(outcome)
  /\ outcome.tag = "aspiError"
  /\ outcome.status = 404
  /\ settled.how = "throw"
  /\ settled.failure = Some(ResultError(outcome))

\* The projection an execution that returned a Result has applied.
UsedMode ==
  IF settled.shape = "result" THEN "result"
  ELSE IF settled.shape \in {"value", "error"} THEN "throwing"
  ELSE "pair"

Projected == Done /\ outcome.kind \in {"ok", "err"}

\* The last call on the request decides; the two flags are never both set.
LastCallWins ==
  /\ ~(shouldBeResult /\ throwOnError)
  /\ lastCall = "withResult" =>
       /\ shouldBeResult
       /\ Projected => UsedMode = "result"
  /\ lastCall = "throwable" =>
       /\ throwOnError
       /\ Projected => UsedMode = "throwing"

\* C19 (as stated): after any sequence of withResult() and throwable() calls
\* on the request the last call decides the projection and the flags are
\* never both set; with no such call the projection is the pair.
C19_Original ==
  /\ LastCallWins
  /\ lastCall = "none" =>
       /\ ~shouldBeResult
       /\ ~throwOnError
       /\ Projected => UsedMode = "pair"

\* C19 (amended): after any sequence of withResult() and throwable() calls
\* on the request the last call decides the projection and the flags are
\* never both set; with no such call the projection is the one of the
\* client: throwing if the client was made throwable, the pair otherwise.
C19_LastSelectionWins ==
  /\ LastCallWins
  /\ lastCall = "none" =>
       /\ ~shouldBeResult
       /\ throwOnError = clientThrowOnError
       /\ Projected =>
            UsedMode = IF clientThrowOnError THEN "throwing" ELSE "pair"

C19_Witness ==
  /\ Projected
  /\ clientThrowOnError
  /\ lastCall = "withResult"
  /\ ~throwOnError
  /\ settled.shape = "result"
  /\ settled.result = outcome

\* The tags of the failures #makeRequest builds itself.
EngineTags == {"aspiError", "jsonParseError", "parseError"}
RetriesOrOne == IF retries > 1 THEN retries ELSE 1

\* C20: an execution never issues more than max(1, retries) fetches; while
\* it runs there is no outcome; once started it ends; when it has ended
\* (no handler having thrown) its outcome is either a Success or one
\* failure (an AspiError, a handler's CustomError, 'jsonParseError' or
\* 'parseError'), and nothing happens after it.
C20_TerminatesWithOneOutcome ==
  /\ [](fetchCalls <= RetriesOrOne)
  /\ [](~Done => (outcome = NoOutcome /\ settled = NotSettled))
  /\ []((Done /\ HandlersReturned) =>
          /\ isOk(outcome) # isErr(outcome)
          /\ isOk(outcome) => outcome.tag = ""
          /\ isErr(outcome) =>
               \/ outcome.tag \in EngineTags
               \/ /\ outcome.data.kind = "handlerResult"
                  /\ outcome.status \in DOMAIN customErrorCbs
                  /\ outcome.tag = customErrorCbs[outcome.status].tag)
  /\ [][~Done]_vars
  /\ (pc # "idle") ~> Done

C20_Witness ==
  /\ Done
  /\ retries = 3
  /\ fetchCalls = 3
  /\ Len(attemptLog) = 3
  /\ attemptLog[1].kind = "throw"
  /\ isErr(outcome)
  /\ outcome.tag = "aspiError"
  /\ settled.shape = "pair"

\* ------------------------------------------------------------------ C21
\* fetch() calls that were issued and have not settled yet.
InFlight == fetchCalls - fetchSettled

\* A step issues a fetch().
IssuesFetch == fetchCalls' # fetchCalls

\* C21: within one execution the attempts are strictly sequential.  A step
\* issues at most one fetch() call; the call of attempt k+1 is issued only
\* when every earlier call has settled, all k earlier attempts have ended
\* (body decoded, retryWhile evaluated), k delays have been slept through
\* (each computed by a retryDelay call when retryDelay is a function), and
\* the step is either the entry of the execution or the end of a sleep.
\* At no time are two fetch() calls in flight.
C21_AttemptsSequential ==
  /\ [](InFlight \in {0, 1})
  /\ [](InFlight = 1 <=> pc = "fetch")
  /\ [][IssuesFetch =>
          /\ fetchCalls' = fetchCalls + 1
          /\ InFlight = 0
          /\ pc' = "fetch"
          /\ pc = IF fetchCalls = 0 THEN "idle" ELSE "sleep"
          /\ attempts' = fetchCalls'
          /\ Len(attemptLog') = fetchCalls
          /\ Len(sleeps') = fetchCalls
          /\ retryDelay.kind = "function" => Len(retryDelayLog') = fetchCalls
       ]_vars

\* The third fetch() call is in flight after two computed delays.
C21_Witness ==
  /\ pc = "fetch"
  /\ fetchCalls = 3
  /\ Len(sleeps) = 2
  /\ Len(retryDelayLog) = 2
  /\ attemptLog[1].kind = "response"
  /\ attemptLog[2].kind = "throw"

\* ------------------------------------------------------------------ C23
RECURSIVE SumSeq(_)
SumSeq(seq) == IF seq = <<>> THEN 0 ELSE seq[1] + SumSeq(Tail(seq))

\* Every attempt made so far failed with a retry trigger, under a numeric
\* retryDelay.
FixedDelayAllTriggering ==
  /\ retryDelay.kind = "number"
  /\ EveryAttempt(TriggeringFailure)

\* C23: with a numeric retryDelay D and attempts that all fail with a retry
\* trigger, at every moment one sleep of D has ended for each fetch() call
\* after the first and none besides (no sleep before the first attempt), and
\* when the execution is over after N attempts there were exactly N-1
\* sleeps, D each, D*(N-1) in all (no sleep after the last attempt).
C23_FixedDelaySleeps ==
  FixedDelayAllTriggering =>
    /\ Len(sleeps) = fetchCalls - 1
    /\ \A i \in 1..Len(sleeps) : sleeps[i] = retryDelay.ms
    /\ Done => /\ Len(attemptLog) = retries
               /\ Len(sleeps) = Len(attemptLog) - 1
               /\ SumSeq(sleeps) = retryDelay.ms * (Len(attemptLog) - 1)

\* Three attempts answered 500 under retryOn [500] and a delay of
\* FixedDelay: two sleeps.
C23_Witness ==
  /\ Done
  /\ FixedDelayAllTriggering
  /\ retryDelay.ms = FixedDelay
  /\ Len(attemptLog) = 3
  /\ sleeps = <<FixedDelay, FixedDelay>>

\* ------------------------------------------------------------------ C24
\* A step enters the retryDelay function.
CallsRetryDelay == Len(retryDelayLog') = Len(retryDelayLog) + 1

C26_AsyncSchemaRaises ==
  (Done /\ validateResult = "promise") =>
    /\ outcome.kind = "throw"
    /\ settled.how = "throw"

\* ------------------------------------------------------------------ C27
\* The response context attempt j should be reported with: its own
\* response, or the synthesized 500 context (response 0) when its fetch()
\* threw.
ContextOfAttempt(j) == IF attemptLog[j].kind = "throw" THEN 0 ELSE j

\* C27: the response context passed to retryDelay and to onRetry after
\* attempt j, and to a handler, is the context of that attempt: the
\* attempt's own response, or the synthesized 500 context when the attempt
\* raised a transport exception; never an earlier attempt's response.
C27_ContextOfCompletedAttempt ==
  /\ \A j \in 1..Len(retryDelayLog) :
       retryDelayLog[j].response = ContextOfAttempt(j)
  /\ \A j \in 1..Len(onRetryLog) : onRetryLog[j] = ContextOfAttempt(j)
  /\ \A k \in 1..Len(handlerLog) :
       handlerLog[k].response \in {0, Len(attemptLog)}

\* ------------------------------------------------------------------ C30
\* Code -> label -> code, over the whole table.
CodeLabelCode ==
  \A c \in HttpErrorCodes :
    /\ getHttpErrorStatus(c) \in DOMAIN httpErrors
    /\ httpErrors[getHttpErrorStatus(c)] = c

\* Label -> code -> label, over the whole table.
LabelCodeLabel ==
  \A l \in DOMAIN httpErrors : getHttpErrorStatus(httpErrors[l]) = l

\* C30: the status table is a bijection between codes and labels: looking
\* up the label found for a code of the table gives the code back, finding
\* the label of a label's code gives the label back, and so no two labels
\* share a code; the label carried by every terminal AspiError for a status
\* of the table leads back to that status.
C30_StatusTableBijection ==
  /\ CodeLabelCode
  /\ LabelCodeLabel
  /\ Cardinality(HttpErrorCodes) = Cardinality(DOMAIN httpErrors)
  /\ (Done /\ outcome.tag = "aspiError"
           /\ outcome.status \in HttpErrorCodes) =>
       /\ outcome.statusText \in DOMAIN httpErrors
       /\ httpErrors[outcome.statusText] = outcome.status

\* An execution ended with the AspiError of a 404 response, labelled
\* NOT_FOUND.
C30_Witness ==
  /\ Done
  /\ outcome.tag = "aspiError"
  /\ outcome.status = 404
  /\ outcome.statusText = "NOT_FOUND"
  /\ getHttpErrorStatus(httpErrors.NOT_FOUND) = "NOT_FOUND"

\* ------------------------------------------------------------------ C22
\* C22: two executions running at once on one request do not interfere.
\* Every step belongs to one of them: it changes that execution's attempt
\* counter, last response and other locals as a step of the execution
\* running alone would, and leaves the other execution and the request's
\* fields as they are.  So under every interleaving each execution goes
\* through a run it has alone, with that run's fetch() calls and outcome.
C22_NoInterference ==
  /\ [][/\ execVars' # execVars =>
            (other' = other /\ Cur' \in StepsOf(Cur))
        /\ other' # other =>
            (execVars' = execVars /\ other' \in StepsOf(other))
        /\ cfgVars' = cfgVars]_vars
  /\ [](\A e \in {Cur, other} :
          e.pc = "done" =>
            /\ e.fetchCalls = Len(e.attemptLog)
            /\ e.fetchCalls <= retries
            /\ e.outcome.response \in {0, e.fetchCalls})

\* Both executions are under way at different attempts, with different
\* last responses.
C22_Witness ==
  /\ pc = "sleep"
  /\ attempts = 1
  /\ response.status = 404
  /\ other.pc = "parse"
  /\ other.attempts = 2
  /\ other.response.status = 500
  /\ other.fetchCalls = 2
  /\ fetchCalls = 1

\* ------------------------------------------------------------------ C25
\* The registrations made for a status, and the last of them.
RegistrationsFor(status) ==
  {i \in 1..Len(registrations) : registrations[i].status = status}

LastRegistration(status) ==
  LET last == CHOOSE i \in RegistrationsFor(status) :
                \A j \in RegistrationsFor(status) : j <= i
  IN registrations[last]

\* C25: a status has a handler entry exactly when a handler was registered
\* for it, and the entry is the callback and the tag of the last such
\* registration, whether earlier ones were made on the client or on the
\* request; a handler call runs that callback and the failure it ends in
\* carries that tag.
C25_LastRegistrationWins ==
  /\ DOMAIN customErrorCbs =
       {c \in HandledCodes : RegistrationsFor(c) # {}}
  /\ \A c \in DOMAIN customErrorCbs :
       /\ customErrorCbs[c].cb = LastRegistration(c).cb
       /\ customErrorCbs[c].tag = LastRegistration(c).tag
  /\ \A k \in 1..Len(handlerLog) :
       /\ RegistrationsFor(handlerLog[k].status) # {}
       /\ handlerLog[k].cb = LastRegistration(handlerLog[k].status).cb
  /\ (Done /\ handlerLog # <<>> /\ Last(handlerLog).result = "returned") =>
       outcome.tag = LastRegistration(Last(handlerLog).status).tag

\* A 404 was answered after the client registered notFound(cb1) and the
\* request registered error('customError', 'NOT_FOUND', cb2): cb2 ran and
\* the failure is tagged customError.
C25_Witness ==
  /\ Done
  /\ Len(registrations) = 2
  /\ registrations[1] = [level |-> "client", status |-> 404,
                         tag |-> "notFoundError", cb |-> "cb1"]
  /\ registrations[2] = [level |-> "request", status |-> 404,
                         tag |-> "customError", cb |-> "cb2"]
  /\ Len(handlerLog) = 1
  /\ handlerLog[1].cb = "cb2"
  /\ handlerLog[1].status = 404
  /\ outcome.tag = "customError"

\* ------------------------------------------------------------------ C28
\* The last bodyJson() call was given a body that no schema refused: no
\* body schema was registered, or its validate accepted the body.
LastBodyAccepted ==
  /\ bodyJsonLog # <<>>
  /\ Last(bodyJsonLog).call = "bodyJson"
  /\ ~Last(bodyJsonLog).schema \/ Last(bodyJsonLog).result = "value"

\* C28: after bodyJson(b) with no body schema registered, or with a body
\* schema that accepts b, every fetch() call of the execution carries
\* JSON.stringify(b) as its body.
C28_BodyJsonSent ==
  (LastBodyAccepted /\ fetchCalls > 0) =>
    requestInit.body = Some(JSONstringify(Last(bodyJsonLog).arg))

\* ------------------------------------------------------------------ C29
\* The retry configurations in the order they were given: the client's,
\* then the argument of each setRetry() call on the request.
GivenConfigs == <<clientRetryConfig>> \o setRetryLog

\* The position of the last configuration for which Gives holds, 0 when
\* there is none.
RECURSIVE LastGiving(_, _)
LastGiving(Gives(_), n) ==
  IF n = 0 THEN 0
  ELSE IF Gives(GivenConfigs[n]) THEN n
  ELSE LastGiving(Gives, n - 1)

GivesRetries(c) == c.retries # None
GivesRetryDelay(c) == c.retryDelay.kind # "unset"
GivesRetryOn(c) == c.retryOn # None
GivesRetryWhile(c) == c.retryWhile.kind # "unset"
GivesOnRetry(c) == c.onRetry

\* C29: the retry settings an execution uses are, field by field, the
\* value given last in the sequence made of the client's configuration
\* followed by the arguments of the request's setRetry() calls, and the
\* default when no one gives the field: retries 1, retryDelay 0, retryOn
\* empty, no retryWhile, no onRetry.
C29_RetryConfigOverlay ==
  LET n == Len(GivenConfigs)
      r == LastGiving(GivesRetries, n)
      d == LastGiving(GivesRetryDelay, n)
      o == LastGiving(GivesRetryOn, n)
      w == LastGiving(GivesRetryWhile, n)
      h == LastGiving(GivesOnRetry, n)
  IN /\ retries = IF r = 0 THEN 1 ELSE Get(GivenConfigs[r].retries)
     /\ retryDelay = IF d = 0 THEN [kind |-> "number", ms |-> 0]
                     ELSE [kind |-> GivenConfigs[d].retryDelay.kind,
                           ms |-> GivenConfigs[d].retryDelay.ms]
     /\ retryOn = IF o = 0 THEN {} ELSE Get(GivenConfigs[o].retryOn)
     /\ retryWhile.kind = IF w = 0 THEN "unset"
                          ELSE GivenConfigs[w].retryWhile.kind
     /\ onRetry = (h # 0)
     /\ fetchCalls <= retries
     /\ \A i \in 1..Len(sleeps) :
          d = 0 \/ GivenConfigs[d].retryDelay.kind = "number" =>
            sleeps[i] = retryDelay.ms

\* The README's example: the client gives retries 3, delay 1000 and
\* retryOn [404], the request gives a delay function; three attempts
\* answered 404 were made with computed delays.
C29_Witness ==
  /\ Done
  /\ clientRetryConfig.retries = Some(ReadmeRetries)
  /\ clientRetryConfig.retryOn = Some({404})
  /\ Len(setRetryLog) = 2
  /\ setRetryLog[2].retryDelay.kind = "function"
  /\ setRetryLog[1].retryWhile.kind = "serverError"
  /\ fetchCalls = 3
  /\ Len(retryDelayLog) = 2
  /\ \A i \in Attempts : attemptLog[i].status = 404

\* ------------------------------------------------------------------ C37
\* The retries value the caller configured, where one was configured.
ConfiguredRetries == Get(retryConfig.retries)

\* C37: for every configured retries value, 0 and negative ones included,
\* a finished execution that the body schema did not stop has issued at
\* least one fetch() call and at most max(1, retries).
C37_AtLeastOneCall ==
  (Done /\ ~bodySchemaIssues /\ retryConfig.retries # None) =>
    /\ fetchCalls >= 1
    /\ fetchCalls <= IF ConfiguredRetries > 1 THEN ConfiguredRetries ELSE 1

\* ------------------------------------------------------------------ C38
\* The attempt ended without a response: fetch() threw, or reading the
\* body did.
RaisedException(e) == e.kind \in {"throw", "bodyError"}

\* Attempts 1..k-1 failed with a retry trigger or an exception and attempt
\* k, the last one made, was answered 2xx with a body that decoded and
\* that the output schema, where it was applied, accepted.
RecoveredAt(k) ==
  /\ Done
  /\ Len(attemptLog) = k
  /\ \A i \in 1..(k - 1) :
       TriggeringFailure(attemptLog[i]) \/ RaisedException(attemptLog[i])
  /\ IsSuccess(attemptLog[k])
  /\ validateResult \in {"none", "value"}

\* C38: when attempts 1..k-1 fail with a retry trigger or an exception and
\* attempt k <= retries is answered 2xx with a decodable, schema-valid
\* body, exactly k fetch() calls were issued and the outcome is the
\* success built from attempt k alone: its response, its status and its
\* data (as validated, when the schema was applied).
C38_RetryThenSuccess ==
  \A k \in 1..(MaxRetries + 1) :
    RecoveredAt(k) =>
      /\ k <= retries
      /\ fetchCalls = k
      /\ outcome =
           [kind |-> "ok", tag |-> "", status |-> attemptLog[k].status,
            statusText |-> getHttpErrorStatus(attemptLog[k].status),
            response |-> k,
            data |-> [kind |-> IF validateResult = "value" THEN "validated"
                               ELSE "data",
                      of |-> k]]
      /\ HandlersReturned /\ handlerLog = <<>>

\* A 500 under retryOn [500], then a rejected fetch(), then a 200.
C38_Witness ==
  /\ RecoveredAt(3)
  /\ attemptLog[1].status = 500
  /\ attemptLog[1].status \in retryOn
  /\ attemptLog[2].kind = "throw"
  /\ outcome.kind = "ok"
  /\ outcome.response = 3

\* ------------------------------------------------------------------ C39
\* What the retry configuration and the transport's answers alone say
\* about attempt i, without looking at the handler table.
\* No attempt up to i got a response: no response context can be built.
ContextMissing(i) == \A j \in 1..i : attemptLog[j].kind = "throw"

\* Attempt i is followed by a delay.
SleepsAfter(i) ==
  /\ i < retries
  /\ TriggeringFailure(attemptLog[i]) \/ RaisedException(attemptLog[i])
  /\ ~(retryDelay.kind = "function" /\ ContextMissing(i))

\* Attempt i is followed by another attempt.
Continues(i) == SleepsAfter(i) /\ ~(onRetry /\ ContextMissing(i))

\* Attempt i is the last allowed one and failed with a retry trigger.
ExhaustedAt(i) == i = retries /\ TriggeringFailure(attemptLog[i])

\* onRetry runs after attempt i when no handler is registered.
OnRetryAfter(i) ==
  /\ onRetry
  /\ ~ContextMissing(i)
  /\ SleepsAfter(i) \/ ExhaustedAt(i)

\* The numbers of fetch() calls and of delays are fixed by the transport's
\* answers and the retry configuration.
CallsAndDelaysFixed ==
  /\ fetchCalls = Len(attemptLog)
  /\ \A i \in Attempts : Continues(i) <=> i < Len(attemptLog)
  /\ Len(sleeps) = Cardinality({i \in Attempts : SleepsAfter(i)})

\* C39 (as stated): the numbers of fetch() calls, of delays and of onRetry
\* calls of a finished execution are those the transport's answers and the
\* retry configuration give when no handler is registered, whatever
\* handlers are registered.
C39_Original ==
  (Done /\ attemptLog # <<>>) =>
    /\ CallsAndDelaysFixed
    /\ Len(onRetryLog) = Cardinality({i \in Attempts : OnRetryAfter(i)})

\* C39 (amended): the numbers of fetch() calls and of delays do not depend
\* on the registered handlers; the number of onRetry calls is one less
\* when a handler is registered for the retry-triggering status of the
\* last allowed attempt, the handler being called in place of that
\* attempt's onRetry, and does not depend on the handlers otherwise.
C39_HandlerKeepsCounts ==
  (Done /\ attemptLog # <<>>) =>
    /\ CallsAndDelaysFixed
    /\ Len(onRetryLog) =
         Cardinality({i \in Attempts :
                        /\ OnRetryAfter(i)
                        /\ ~(ExhaustedAt(i) /\
                             attemptLog[i].status \in DOMAIN customErrorCbs)})

\* Three attempts answered 404 under retryOn with a handler for 404: three
\* fetch() calls, two delays, two onRetry calls and the handler's failure.
C39_Witness ==
  /\ Done
  /\ retries = 3
  /\ onRetry
  /\ \A i \in Attempts : attemptLog[i].status = 404 /\ 404 \in retryOn
  /\ 404 \in DOMAIN customErrorCbs
  /\ fetchCalls = 3
  /\ Len(sleeps) = 2
  /\ Len(onRetryLog) = 2
  /\ outcome.tag = customErrorCbs[404].tag

\* ------------------------------------------------------------------ C36
\* A bodyJson() call the body schema rejected was followed by a last body
\* setter call that sets a body: a bodyJson() call the schema accepted, or
\* unsafeBody().
RejectedThenSet ==
  /\ Len(bodyJsonLog) >= 2
  /\ \E i \in 1..(Len(bodyJsonLog) - 1) :
       /\ bodyJsonLog[i].call = "bodyJson"
       /\ bodyJsonLog[i].result = "issues"
  /\ Last(bodyJsonLog).result = "value"
  /\ Last(bodyJsonLog).call = "unsafeBody" \/ Last(bodyJsonLog).schema

\* The body the last body setter call asks for.
LastBody ==
  IF Last(bodyJsonLog).call = "unsafeBody"
    THEN Last(bodyJsonLog).arg
    ELSE JSONstringify(Last(bodyJsonLog).arg)

\* C36: when a rejected bodyJson() call is followed by an accepted one or
\* by unsafeBody(), the execution is not short-circuited: it calls fetch()
\* with the last body and does not end in the parseError of the earlier
\* call.
C36_LastBodyWins ==
  (Done /\ RejectedThenSet) =>
    /\ fetchCalls >= 1
    /\ requestInit.body = Some(LastBody)
    /\ outcome # ErrCustom("parseError", 0, 0, Issues(0))


\* ---------------------------------------------------------------- C35
\* The init that results from applying every middleware in registration
\* order, each receiving the output of the one before it.
RECURSIVE Composed(_, _)
Composed(init, mws) ==
  IF mws = <<>> THEN init ELSE Composed(Apply(Head(mws), init), Tail(mws))

\* C35: the request init sent to fetch and reported in the outcome is the
\* result of applying all registered middlewares in registration order, each
\* receiving the previous one's output, so that no middleware's change is
\* dropped.
C35_MiddlewaresCompose ==
  fetchCalls > 0 => requestInit = Composed(LocalRequestInit, middlewares)


\* ---------------------------------------------------------------- C33
\* A step that registers an error handler on the request.
RequestRegisters ==
  /\ Len(registrations') > Len(registrations)
  /\ Last(registrations').level = "request"

\* C33: registering an error handler on one Request changes only that
\* Request: the handler table of the client, which every Request created
\* afterwards receives, and of every other Request created from the client
\* is unchanged by the step.
C33_RequestHandlerIsLocal ==
  [][RequestRegisters =>
       /\ aspi'.customErrorCbs = aspi.customErrorCbs
       /\ sibling'.customErrorCbs = sibling.customErrorCbs]_vars

\* ---------------------------------------------------------------- C34
\* A step that is a call on the client made after the request was created.
ClientCalled ==
  \/ aspi'.calls > aspi.calls
  \/ /\ Len(registrations') > Len(registrations)
     /\ Last(registrations').level = "client"

\* C34: a Request is a snapshot of the client's configuration at creation:
\* a later call on the client (setHeader, setHeaders, setBaseUrl, setRetry,
\* use, error, throwable) leaves the headers, base URL, retry configuration,
\* middlewares, error handlers and projection mode of the Request as they
\* were.
C34_RequestIsSnapshot ==
  [][ClientCalled =>
       UNCHANGED <<headers, baseUrl, retryConfig, middlewares,
                   customErrorCbs, throwOnError, shouldBeResult>>]_vars


\* ---------------------------------------------------------------- C31
\* The last call was the direct form catchError(result, tag, fn) on a
\* Result.
CatchErrorOnResult ==
  /\ resultCall.fn = "catchError"
  /\ resultCall.form = "direct"
  /\ HasTag(resultCall.self)

\* The result is an Err whose error.tag equals the tag given.
CatchErrorApplies ==
  /\ ResultIsErr(resultCall.self)
  /\ resultCall.self.error.tag = resultCall.args[1].string

\* C31: catchError(result, tag, fn), when result is an Err whose error.tag
\* equals tag, calls fn exactly once with that error and returns
\* { __tag: 'ok', value: null }; otherwise fn is not called and result is
\* returned unchanged.
C31_CatchError ==
  CatchErrorOnResult =>
    IF CatchErrorApplies
    THEN resultCall.out =
           Returns(ResultOk(JsNull),
                    <<[fn |-> resultCall.args[2].function,
                       arg |-> resultCall.self.error]>>)
    ELSE resultCall.out = Returns(resultCall.self, <<>>)

C31_Witness ==
  /\ CatchErrorOnResult
  /\ CatchErrorApplies
  /\ resultCall.out.value = ResultOk(JsNull)
  /\ Len(resultCall.out.calls) = 1

\* ---------------------------------------------------------------- C32
\* The direct form f(result, args) of the function called.
DirectCall(fn, self, args) ==
  CASE fn = "map" -> map(self, args[1])
    [] fn = "mapErr" -> mapErr(self, args[1])
    [] fn = "match" -> match(self, args[1])
    [] fn = "getOrThrowWith" -> getOrThrowWith(self, args[1])
    [] fn = "catchError" -> catchError(self, args[1], args[2])
    [] fn = "catchAllErrors" -> catchAllErrors(self, args[1])
    [] fn = "catchErrors" -> catchErrors(self, args[1])

\* Two evaluations end the same way, with the same value, after the same
\* callback invocations.
SameOutcome(a, b) ==
  /\ a.kind = b.kind
  /\ a.calls = b.calls
  /\ a.value = b.value

\* C32: for map, mapErr, match, getOrThrowWith, catchError, catchAllErrors
\* and catchErrors, the curried form f(args)(result) yields the same value
\* and the same callback invocations as the direct form f(result, args),
\* for Ok and for Err results.
C32_CurriedEqualsDirect ==
  (resultCall.fn # "none" /\ resultCall.form = "curried") =>
    SameOutcome(resultCall.out,
                DirectCall(resultCall.fn, resultCall.self, resultCall.args))

====
